---- MODULE Spec2Model ----
(***************************************************************************)
(* Member activity-status lifecycle and aggregate recomputation of the gym *)
(* suite: the database triggers of supabase-schema.sql and the service     *)
(* functions (membersService, dashboardService) that write and read the    *)
(* rows those triggers maintain.                                           *)
(*                                                                         *)
(* Time is counted in whole days.  A nullable column is a set with at most *)
(* one element: {} is SQL NULL and {v} is the value v, so that an SQL      *)
(* comparison with NULL (which is never true) is an existential over the   *)
(* set.                                                                    *)
(***************************************************************************)
EXTENDS Integers, Sequences, FiniteSets, TLC

\* ---------------------------------------------------------------- bounds
MaxNow == 1
MaxVisits == 2
ClassifyHorizon == 33

\* ------------------------------------------------------ program constants
SevenDays == 7
ThirtyDays == 30

\* ------------------------------------------------------------ identifiers
MemberIds == {"m1", "m2"}
CoachIds == {"cA", "cB", "cC"}
GymIds == {"g1", "g2"}
CallIds == {"k1", "k2"}

NULL == {}
Some(v) == {v}
The(s) == CHOOSE x \in s : TRUE

TxIds == {"t1", "t2"}

VARIABLES now, members, coaches, member_visits, nextVisitId, calls, tx,
          payments, sessions, alerts, overview, stats, byMonth, page,
          auth_uid, auth_users, profiles, messages, session_participants,
          reply, user, authCalls, participantCalls

vars == <<now, members, coaches, member_visits, nextVisitId, calls, tx,
          payments, sessions, alerts, overview, stats, byMonth, page,
          auth_uid, auth_users, profiles, messages, session_participants,
          reply, user, authCalls, participantCalls>>

\* the rows only dashboardService reads, and the result of its last call
dashVars == <<payments, sessions, alerts, overview>>

\* the results of the last paymentsService.getStats and getRevenueByMonth
\* calls and the figures the financial page last computed
reportVars == <<stats, byMonth, page>>

\* the user whose token the client holds, the registered users, the
\* profiles, the messages, the outcome of the last call that reports one,
\* the `user` of AuthContext, and where the calls of AuthContext and the
\* participant calls of sessionsService stand
staffVars == <<auth_uid, auth_users, profiles, messages, reply, user,
               authCalls, participantCalls>>

\* those and the session participants
teamVars == <<staffVars, session_participants>>

\* -------------------------------------------------------- row security
UserIds == {"u1", "u2"}

\* nobody is signed in: auth.uid() is NULL
Anon == "anon"

\* gym_id IN (SELECT gym_id FROM profiles WHERE id = auth.uid()): the
\* policies of members, member_visits, sessions, payments and alerts
StaffOfGym(u, gym_id) ==
    u \in DOMAIN profiles /\ gym_id \in profiles[u].gym_id

\* ... AND role IN ('owner', 'admin', 'manager'): the ALL policy of coaches
ManagerOfGym(u, gym_id) ==
    StaffOfGym(u, gym_id) /\ profiles[u].role \in {"owner", "admin", "manager"}

\* USING (auth.uid() = id): the policies of profiles
OwnProfile(u, id) == u = id

\* ------------------------------------------------------------------ JSON
\* A request body is JSON: an integer column accepts a JSON number and
\* rejects a JSON object ("invalid input syntax for type integer").
JsonNumber(n) == [json |-> "number", n |-> n]
JsonObject == [json |-> "object", n |-> 0]

\* supabase.rpc(...) builds a request object; nothing is sent until it is
\* awaited, and as a property value it serialises to a JSON object.
rpc(fn) == JsonObject

\* ------------------------------------------------- activity classification
ageMutant(last_visit, n) ==
    IF \E v \in last_visit : v > n - SevenDays THEN "active"
    ELSE IF \E v \in last_visit : v > n - ThirtyDays THEN "moderate"
    ELSE "inactive"

\* CASE WHEN last_visit >= NOW() - INTERVAL '7 days' ... END
activity_status_case(last_visit, n) ==
    IF \E v \in last_visit : v >= n - SevenDays THEN "active"
    ELSE IF \E v \in last_visit : v >= n - ThirtyDays THEN "moderate"
    ELSE "inactive"

\* trigger function of BEFORE UPDATE ON members (update_members_updated_at):
\* every UPDATE of a member row, one made by a trigger or by a referential
\* action included, stores updated_at = NOW()
update_updated_at(row, n) == [row EXCEPT !.updated_at = n]

reclassifyAll(u, ms, member_id, n) ==
    [m \in DOMAIN ms |->
       [ms[m] EXCEPT !.activity_status =
          activity_status_case(ms[m].last_visit, n)]]

\* trigger function of AFTER INSERT ON member_visits, fired by an insert of
\* user u: it has no SECURITY DEFINER, so its UPDATE members ... WHERE id =
\* NEW.member_id runs under row security as u and reaches the row only if
\* u may see and write it ("Staff can view gym members", "Staff can manage
\* members"); a row out of reach is skipped without an error.  The row it
\* reaches is reclassified from the last_visit it holds at that moment, and
\* the UPDATE fires update_members_updated_at
update_member_activity_status(u, ms, member_id, n) ==
    [id \in DOMAIN ms |->
        IF id = member_id /\ StaffOfGym(u, ms[id].gym_id)
        THEN update_updated_at(
               [ms[id] EXCEPT !.activity_status =
                                activity_status_case(ms[id].last_visit, n)],
               n)
        ELSE ms[id]]

\* ------------------------------------------------------ coach client count
SqlNeq(a, b) == \E x \in a : \E y \in b : x # y

\* UPDATE coaches SET client_count = (SELECT COUNT( * ) FROM members
\*                                    WHERE coach_id = c) WHERE id = c
recount(cs, ms, c) ==
    IF c \notin DOMAIN cs THEN cs
    ELSE [cs EXCEPT ![c].client_count =
            Cardinality({m \in DOMAIN ms : c \in ms[m].coach_id})]

RECURSIVE ApplyRecounts(_, _, _)
ApplyRecounts(cs, ms, targets) ==
    IF targets = <<>> THEN cs
    ELSE ApplyRecounts(recount(cs, ms, Head(targets)), ms, Tail(targets))

\* the coaches the trigger recounts, in the order of its statements
RecountTargets(TG_OP, OLD_coach_id, NEW_coach_id) ==
    IF TG_OP \in {"INSERT", "UPDATE"}
    THEN (IF NEW_coach_id # NULL THEN <<The(NEW_coach_id)>> ELSE <<>>)
         \o (IF TG_OP = "UPDATE" /\ OLD_coach_id # NULL
                /\ SqlNeq(OLD_coach_id, NEW_coach_id)
             THEN <<The(OLD_coach_id)>> ELSE <<>>)
    ELSE (IF OLD_coach_id # NULL THEN <<The(OLD_coach_id)>> ELSE <<>>)

\* trigger function of AFTER INSERT OR UPDATE OR DELETE ON members
update_coach_client_count(cs, ms, TG_OP, OLD_coach_id, NEW_coach_id) ==
    ApplyRecounts(cs, ms, RecountTargets(TG_OP, OLD_coach_id, NEW_coach_id))

\* the trigger function fired by a write of user u: it has no SECURITY
\* DEFINER, so its statements run under row security as u.  The subquery
\* counts the member rows u may read ("Staff can view gym members") and the
\* UPDATE reaches the coach row only if u may write it ("Admins can manage
\* coaches"); a row out of reach is skipped without an error
update_coach_client_count_as(u, cs, ms, TG_OP, OLD_coach_id, NEW_coach_id) ==
    LET recountAs(rows, c) ==
          IF c \notin DOMAIN rows \/ ~ManagerOfGym(u, rows[c].gym_id)
          THEN rows
          ELSE [rows EXCEPT ![c].client_count =
                  Cardinality({m \in DOMAIN ms :
                                 /\ c \in ms[m].coach_id
                                 /\ StaffOfGym(u, ms[m].gym_id)})]
        RECURSIVE ApplyRecountsAs(_, _)
        ApplyRecountsAs(rows, targets) ==
          IF targets = <<>> THEN rows
          ELSE ApplyRecountsAs(recountAs(rows, Head(targets)), Tail(targets))
    IN  ApplyRecountsAs(cs, RecountTargets(TG_OP, OLD_coach_id, NEW_coach_id))

\* members.coach_id REFERENCES coaches(id): NULL or an existing coach
CoachExists(coach_id) == \A c \in coach_id : c \in DOMAIN coaches

\* ------------------------------------------------------------ member rows
\* column defaults of CREATE TABLE members (updated_at DEFAULT NOW())
MemberDefaults(gym_id) ==
    [gym_id |-> gym_id, coach_id |-> NULL, monthly_fee |-> 0,
     activity_status |-> "active", last_visit |-> NULL, total_visits |-> 0,
     updated_at |-> now]

\* a column of the request body that the integer column cannot take
Rejected(p) ==
    "total_visits" \in DOMAIN p /\ p.total_visits.json # "number"

ApplyPayload(row, p) ==
    [f \in DOMAIN row |->
        IF f \in DOMAIN p
        THEN (IF f = "total_visits" THEN p[f].n ELSE p[f])
        ELSE row[f]]

visitsOfAny(m) == member_visits
VisitsOf(m) == {v \in member_visits : v.member_id = m}

\* membersService.create: insert, then the client-count trigger; the gym
\* and the coach of the row must exist (foreign keys)
MembersCreate(id, gym_id, p) ==
    /\ id \notin DOMAIN members
    /\ ApplyPayload(MemberDefaults(gym_id), p).gym_id \in GymIds
    /\ ~Rejected(p)
    /\ CoachExists(ApplyPayload(MemberDefaults(gym_id), p).coach_id)
    /\ LET row == ApplyPayload(MemberDefaults(gym_id), p)
           ms == [m \in DOMAIN members \cup {id} |->
                     IF m = id THEN row ELSE members[m]]
       IN /\ members' = ms
          /\ coaches' = update_coach_client_count(coaches, ms, "INSERT",
                                                  NULL, row.coach_id)
    /\ UNCHANGED <<now, member_visits, nextVisitId, calls, tx, dashVars,
                   reportVars, teamVars>>

\* membersService.update: update ... eq('id', id), then the triggers
\* (updated_at, client count); a gym_id of no gym or a coach_id of no coach
\* is refused by the foreign key; a body that names another id is refused
\* when that id is taken (primary key) or when a visit, a payment or a
\* session participation names the member (foreign keys without ON UPDATE)
MembersUpdate(id, p) ==
    /\ id \in DOMAIN members
    /\ ~Rejected(p)
    /\ ApplyPayload(members[id], p).gym_id \in GymIds
    /\ CoachExists(ApplyPayload(members[id], p).coach_id)
    /\ IF "id" \in DOMAIN p
       THEN \/ p.id = id
            \/ /\ p.id \notin DOMAIN members
               /\ VisitsOf(id) = {}
               /\ \A q \in payments : q.member_id # id
               /\ \A r \in session_participants : r.member_id # id
       ELSE TRUE
    /\ LET newId == IF "id" \in DOMAIN p THEN p.id ELSE id
           row == update_updated_at(ApplyPayload(members[id], p), now)
           ms == [m \in (DOMAIN members \ {id}) \cup {newId} |->
                    IF m = newId THEN row ELSE members[m]]
       IN /\ members' = ms
          /\ coaches' = update_coach_client_count(coaches, ms, "UPDATE",
                                members[id].coach_id, row.coach_id)
    /\ UNCHANGED <<now, member_visits, nextVisitId, calls, tx, dashVars,
                   reportVars, teamVars>>

\* membersService.delete: the row goes, its visits, payments and session
\* participations cascade, then the trigger
MembersDelete(id) ==
    /\ id \in DOMAIN members
    /\ LET ms == [m \in DOMAIN members \ {id} |-> members[m]]
       IN /\ members' = ms
          /\ coaches' = update_coach_client_count(coaches, ms, "DELETE",
                                members[id].coach_id, NULL)
    /\ member_visits' = member_visits \ VisitsOf(id)
    /\ payments' = {q \in payments : q.member_id # id}
    /\ session_participants' =
         {r \in session_participants : r.member_id # id}
    /\ UNCHANGED <<now, nextVisitId, calls, tx, sessions, alerts, overview,
                   reportVars, staffVars>>

\* ---------------------------------------------------------------- checkIn
\* one invocation of checkIn: where it stands, the row it received from the
\* insert (`data`), the errors of its two responses, and the total_visits the
\* member had when the call was made
IdleCall == [pc |-> "idle", member_id |-> "m1", data |-> NULL,
             insertError |-> FALSE, updateError |-> FALSE, prior_total |-> 0]

\* first request of checkIn: insert into member_visits (gym_id = the
\* argument, check_in = client clock), select().single(); `if (error) throw
\* error`.  The member and the gym must exist (foreign keys, checked
\* outside row security) and the visit row must pass "Staff can manage
\* visits" for the signed-in user.  The insert fires
\* update_activity_on_visit in the same statement, as that user; when its
\* UPDATE reaches the member row it fires update_members_updated_at and
\* update_coach_clients (TG_OP = UPDATE with the coach unchanged), which
\* recounts the member's coach.
CheckInInsertVisit(k, member_id, gymId, fail) ==
    /\ calls[k].pc # "inserted"
    /\ nextVisitId <= MaxVisits
    /\ IF \/ fail
          \/ member_id \notin DOMAIN members
          \/ gymId \notin GymIds
          \/ ~StaffOfGym(auth_uid, gymId)
       THEN /\ calls' = [calls EXCEPT ![k] =
                  [IdleCall EXCEPT !.pc = "threw", !.member_id = member_id,
                                   !.insertError = TRUE]]
            /\ UNCHANGED <<members, coaches, member_visits, nextVisitId>>
       ELSE LET row == [id |-> nextVisitId, member_id |-> member_id,
                        gym_id |-> gymId, check_in |-> now]
                reached == StaffOfGym(auth_uid, members[member_id].gym_id)
                ms == update_member_activity_status(auth_uid, members,
                                                    member_id, now)
            IN /\ member_visits' = member_visits \cup {row}
               /\ nextVisitId' = nextVisitId + 1
               /\ members' = ms
               /\ coaches' =
                    IF reached
                    THEN update_coach_client_count_as(auth_uid, coaches, ms,
                                 "UPDATE", members[member_id].coach_id,
                                 ms[member_id].coach_id)
                    ELSE coaches
               /\ calls' = [calls EXCEPT ![k] =
                     [IdleCall EXCEPT !.pc = "inserted",
                        !.member_id = member_id, !.data = Some(row),
                        !.prior_total = members[member_id].total_visits]]
    /\ UNCHANGED <<now, tx, dashVars,
                   reportVars, teamVars>>

\* second request of checkIn: update members set last_visit, total_visits
\* where id = memberId, as the signed-in user.  total_visits carries the
\* un-awaited rpc request object; the response (and its error) is discarded
\* and the visit returned.
CheckInUpdateMember(k, fail) ==
    /\ calls[k].pc = "inserted"
    /\ LET id == calls[k].member_id
           p == [last_visit |-> Some(now),
                 total_visits |-> rpc("increment_visits")]
           error == fail \/ Rejected(p)
       IN /\ IF \/ error
                \/ id \notin DOMAIN members
                \/ ~StaffOfGym(auth_uid, members[id].gym_id)
             THEN UNCHANGED <<members, coaches>>
             ELSE LET row == update_updated_at(ApplyPayload(members[id], p),
                                               now)
                      ms == [members EXCEPT ![id] = row]
                  IN /\ members' = ms
                     /\ coaches' = update_coach_client_count_as(auth_uid,
                              coaches, ms, "UPDATE", members[id].coach_id,
                              row.coach_id)
          /\ calls' = [calls EXCEPT ![k].pc = "returned",
                                    ![k].updateError = error]
    /\ UNCHANGED <<now, member_visits, nextVisitId, tx, dashVars,
                   reportVars, teamVars>>

\* ------------------------------------------- concurrent member writes
\* A member write as its own READ COMMITTED transaction: the row write, then
\* the statements of update_coach_client_count one by one (each counts over
\* the rows the transaction can see and then writes the coach row under its
\* row lock), then the commit.
IdleTx == [pc |-> "idle", op |-> "NONE", member_id |-> "m1", row |-> NULL,
           OLD_coach_id |-> NULL, NEW_coach_id |-> NULL,
           todo |-> <<>>, counted |-> NULL, cwrites |-> <<>>]

InFlight(t) == tx[t].pc = "trigger"

\* the member rows transaction t sees: committed rows and its own write
TxMembers(t) ==
    IF ~InFlight(t) THEN members
    ELSE IF tx[t].op = "DELETE"
         THEN [m \in DOMAIN members \ {tx[t].member_id} |-> members[m]]
         ELSE [m \in DOMAIN members \cup {tx[t].member_id} |->
                  IF m = tx[t].member_id THEN The(tx[t].row) ELSE members[m]]

MemberLocked(m, t) ==
    \E u \in TxIds \ {t} : InFlight(u) /\ tx[u].member_id = m

CoachLocked(c, t) ==
    \E u \in TxIds \ {t} : InFlight(u) /\ c \in DOMAIN tx[u].cwrites

\* transaction t waits for the row lock of the coach it is about to write
Blocked(t) ==
    /\ InFlight(t)
    /\ tx[t].counted # NULL
    /\ CoachLocked(Head(tx[t].todo), t)

\* insert / update / delete of member m with a body that names no id; a
\* coach_id of no coach or a gym_id of no gym is refused (foreign keys); an
\* update stores updated_at; the statements of update_coach_client_count
\* are queued
TxWrite(t, op, m, p) ==
    /\ tx[t].pc = "idle"
    /\ "id" \notin DOMAIN p
    /\ ~MemberLocked(m, t)
    /\ ~Rejected(p)
    /\ IF op = "INSERT" THEN m \notin DOMAIN members ELSE m \in DOMAIN members
    /\ op # "DELETE" =>
          IF "coach_id" \in DOMAIN p THEN CoachExists(p.coach_id) ELSE TRUE
    /\ op # "DELETE" =>
          IF "gym_id" \in DOMAIN p THEN p.gym_id \in GymIds ELSE TRUE
    /\ LET old == IF op = "INSERT" THEN NULL ELSE members[m].coach_id
           row == IF op = "INSERT"
                  THEN Some(ApplyPayload(MemberDefaults("g1"), p))
                  ELSE IF op = "UPDATE"
                       THEN Some(update_updated_at(
                                   ApplyPayload(members[m], p), now))
                       ELSE NULL
           new == IF row = NULL THEN NULL ELSE The(row).coach_id
       IN tx' = [tx EXCEPT ![t] =
                    [IdleTx EXCEPT !.pc = "trigger", !.op = op,
                       !.member_id = m, !.row = row,
                       !.OLD_coach_id = old, !.NEW_coach_id = new,
                       !.todo = RecountTargets(op, old, new)]]
    /\ UNCHANGED <<now, members, coaches, member_visits, nextVisitId, calls,
                   dashVars,
                   reportVars, teamVars>>

\* the subquery SELECT COUNT( * ) of the next trigger statement
TxCount(t) ==
    /\ InFlight(t)
    /\ tx[t].todo # <<>>
    /\ tx[t].counted = NULL
    /\ LET c == Head(tx[t].todo)
       IN tx' = [tx EXCEPT ![t].counted =
                    Some(recount(coaches, TxMembers(t), c)[c].client_count)]
    /\ UNCHANGED <<now, members, coaches, member_visits, nextVisitId, calls,
                   dashVars,
                   reportVars, teamVars>>

\* the UPDATE coaches of that statement, once the coach row is not locked
TxStore(t) ==
    /\ InFlight(t)
    /\ tx[t].counted # NULL
    /\ LET c == Head(tx[t].todo)
           cw == tx[t].cwrites
       IN /\ ~CoachLocked(c, t)
          /\ tx' = [tx EXCEPT ![t].cwrites =
                        [x \in DOMAIN cw \cup {c} |->
                            IF x = c THEN The(tx[t].counted) ELSE cw[x]],
                              ![t].todo = Tail(tx[t].todo),
                              ![t].counted = NULL]
    /\ UNCHANGED <<now, members, coaches, member_visits, nextVisitId, calls,
                   dashVars,
                   reportVars, teamVars>>

TxCommit(t) ==
    /\ InFlight(t)
    /\ tx[t].todo = <<>>
    /\ members' = TxMembers(t)
    /\ coaches' = [c \in DOMAIN coaches |->
                      IF c \in DOMAIN tx[t].cwrites
                      THEN [coaches[c] EXCEPT
                               !.client_count = tx[t].cwrites[c]]
                      ELSE coaches[c]]
    /\ IF tx[t].op = "DELETE"
       THEN /\ member_visits' = member_visits \ VisitsOf(tx[t].member_id)
            /\ payments' = {q \in payments : q.member_id # tx[t].member_id}
            /\ session_participants' =
                 {r \in session_participants :
                    r.member_id # tx[t].member_id}
       ELSE UNCHANGED <<member_visits, payments, session_participants>>
    /\ tx' = [tx EXCEPT ![t].pc = "committed"]
    /\ UNCHANGED <<now, nextVisitId, calls, sessions, alerts, overview,
                   reportVars, staffVars>>

\* two transactions wait for each other's coach row: the database aborts one
TxAbort(t) ==
    /\ Blocked(t)
    /\ \E u \in TxIds \ {t} : Blocked(u)
    /\ tx' = [tx EXCEPT ![t].pc = "aborted"]
    /\ UNCHANGED <<now, members, coaches, member_visits, nextVisitId, calls,
                   dashVars,
                   reportVars, teamVars>>

\* ------------------------------------------------- dashboardService
AlertLimit == 5
Reads == {"members", "coaches", "payments", "sessions", "alerts"}

RECURSIVE SumFees(_, _)
\* reduce((sum, m) => sum + (m.monthly_fee || 0), 0) over member ids
SumFees(ms, ids) ==
    IF ids = {} THEN 0
    ELSE LET m == CHOOSE x \in ids : TRUE
         IN ms[m].monthly_fee + SumFees(ms, ids \ {m})

RECURSIVE SumAmount(_)
\* reduce((sum, p) => sum + (p.amount || 0), 0) over payment rows
SumAmount(rows) ==
    IF rows = {} THEN 0
    ELSE LET q == CHOOSE x \in rows : TRUE
         IN q.amount + SumAmount(rows \ {q})

\* -------- dates: a Date is its local day number, day 0 = 1 January 2025
\* the day number of day 1 of each month from January 2000 to January 2051,
\* as a sequence: element 1 is January 2000
MonthStarts ==
    LET LeapsBefore(y) ==
          ((y - 1) \div 4) - ((y - 1) \div 100) + ((y - 1) \div 400)
        YearStart(y) == 365 * (y - 2025) + LeapsBefore(y) - LeapsBefore(2025)
        MonthOffsets ==
          <<0, 31, 59, 90, 120, 151, 181, 212, 243, 273, 304, 334>>
    IN  [i \in 1..613 |->
           LET y == 2000 + ((i - 1) \div 12)
               m == (i - 1) % 12
               leapDay == YearStart(y + 1) - YearStart(y) - 365
           IN  YearStart(y) + MonthOffsets[m + 1]
               + (IF m > 1 THEN leapDay ELSE 0)] \o <<>>

\* the year, the month (0 = January) and the day of the month (from 1) of
\* each day of the years 2000 to 2050, as a sequence: element 1 is
\* 1 January 2000
Calendar ==
    [n \in 1..(MonthStarts[613] - MonthStarts[1]) |->
       LET d == n - 1 + MonthStarts[1]
           i == CHOOSE k \in (((n - 1) \div 31) + 1)..612 :
                  MonthStarts[k] <= d /\ d < MonthStarts[k + 1]
       IN  [year |-> 2000 + ((i - 1) \div 12), month |-> (i - 1) % 12,
            date |-> d - MonthStarts[i] + 1]] \o <<>>

\* Date.prototype.getFullYear
getFullYear(d) == Calendar[d + 1 - MonthStarts[1]].year
\* Date.prototype.getMonth: 0 = January
getMonth(d) == Calendar[d + 1 - MonthStarts[1]].month
\* Date.prototype.getDate: the day of the month, from 1
getDate(d) == Calendar[d + 1 - MonthStarts[1]].date

\* new Date(y, m, date): a month outside 0..11 moves the year, a date
\* outside the month runs over into the neighbouring months
DateOf(y, m, date) == MonthStarts[12 * (y - 2000) + m + 1] + date - 1

\* Date.prototype.setMonth: the day of the month is kept, so that a day the
\* target month does not have runs over into the month after it
setMonth(d, m) == DateOf(getFullYear(d), m, getDate(d))
\* Date.prototype.setDate
setDate(d, n) == DateOf(getFullYear(d), getMonth(d), n)

\* setDate(1); setHours(0, 0, 0, 0): the first day of the month of day n
StartOfMonth(n) == setDate(n, 1)

RECURSIVE NewestFirst(_)
\* order('created_at', { ascending: false }): every ordering the database
\* may return for the rows, rows of the same moment in any order
NewestFirst(rows) ==
    IF rows = {} THEN {<<>>}
    ELSE UNION {{<<a>> \o q : q \in NewestFirst(rows \ {a})} :
                  a \in {x \in rows :
                           \A y \in rows : x.created_at >= y.created_at}}

Limit(q, n) == SubSeq(q, 1, IF Len(q) < n THEN Len(q) ELSE n)

NoSnapshot ==
    [totalMembers |-> 0, activeMembers |-> 0, moderateMembers |-> 0,
     inactiveMembers |-> 0, totalCoaches |-> 0, activeCoaches |-> 0,
     mrr |-> 0, revenueThisMonth |-> 0, pendingPayments |-> 0,
     overduePayments |-> 0, overdueAmount |-> 0, todaySessionsCount |-> 0,
     totalSessions |-> 0, alerts |-> <<>>]

NoOverview ==
    [state |-> "none", uid |-> "u1", gym_id |-> "g1", errors |-> {},
     got |-> <<>>, paymentsData |-> {}, startOfMonth |-> 0,
     snapshot |-> NoSnapshot]

\* the answer of one of getOverview's requests for members, coaches,
\* payments or sessions: the rows of the gym at the moment the database
\* answers, or nothing (`error`) when it answers with an error
\* (`x.data || []`) or the policies show the caller no row of the gym
OverviewRows(gymId, table, error) ==
    IF table = "members"
    THEN [m \in {x \in DOMAIN members :
                   ~error /\ members[x].gym_id = gymId} |-> members[m]]
    ELSE IF table = "coaches"
    THEN [c \in {x \in DOMAIN coaches :
                   ~error /\ coaches[x].gym_id = gymId} |-> coaches[c]]
    ELSE IF table = "payments"
    THEN {q \in payments : ~error /\ q.gym_id = gymId}
    ELSE {x \in sessions : ~error /\ x.gym_id = gymId}

\* the answers the request for alerts may get: the unread alerts of the
\* gym, newest first, in any order the database may give rows of the same
\* moment, and at most five
OverviewAlerts(gymId, error) ==
    {Limit(q, AlertLimit) :
       q \in NewestFirst({a \in alerts :
                            ~error /\ a.gym_id = gymId /\ ~a.is_read})}

\* dashboardService.getOverview sends five requests at once (Promise.all)
\* and the database answers each on its own, in any order, while other
\* writes go on.  This step is the database answering the requests
\* `tables` of the call for gymId (`errors`: those it answers with an
\* error; `shown`: the policies show the caller the rows of the gym); a
\* step taken when no call is waiting for answers begins a call, made by
\* the signed-in user.
GetOverviewRead(shown, gymId, tables, errors) ==
    LET reading == overview.state = "reading"
        got == IF reading THEN overview.got ELSE <<>>
    IN  /\ tables # {} /\ tables \subseteq Reads /\ errors \subseteq tables
        /\ reading => /\ gymId = overview.gym_id
                      /\ tables \cap DOMAIN got = {}
        /\ \E q \in IF "alerts" \in tables
                    THEN OverviewAlerts(gymId, "alerts" \in errors \/ ~shown)
                    ELSE {<<>>} :
             overview' =
               [state |-> "reading",
                uid |-> IF reading THEN overview.uid ELSE auth_uid,
                gym_id |-> gymId,
                errors |-> IF reading THEN overview.errors \cup errors
                           ELSE errors,
                got |-> [t \in DOMAIN got \cup tables |->
                           IF t \notin tables THEN got[t]
                           ELSE IF t = "alerts" THEN q
                           ELSE OverviewRows(gymId, t,
                                             t \in errors \/ ~shown)],
                paymentsData |-> {}, startOfMonth |-> 0,
                snapshot |-> NoSnapshot]
        /\ UNCHANGED <<now, members, coaches, member_visits, nextVisitId,
                       calls, tx, payments, sessions, alerts,
                       reportVars, teamVars>>

\* the five answers are in: the call reads the clock and computes over the
\* rows it was answered with; the errors are not looked at
GetOverviewReturn ==
    /\ overview.state = "reading"
    /\ DOMAIN overview.got = Reads
    /\ LET membersData == overview.got["members"]
           coachesData == overview.got["coaches"]
           paymentsData == overview.got["payments"]
           sessionsData == overview.got["sessions"]
           startOfMonth == StartOfMonth(now)
           today == now
           tomorrow == setDate(today, getDate(today) + 1)
           status(st) == {m \in DOMAIN membersData :
                            membersData[m].activity_status = st}
       IN  overview' =
             [state |-> "returned", uid |-> overview.uid,
              gym_id |-> overview.gym_id,
              errors |-> overview.errors, got |-> <<>>,
              paymentsData |-> paymentsData, startOfMonth |-> startOfMonth,
              snapshot |->
                [totalMembers |-> Cardinality(DOMAIN membersData),
                 activeMembers |-> Cardinality(status("active")),
                 moderateMembers |-> Cardinality(status("moderate")),
                 inactiveMembers |-> Cardinality(status("inactive")),
                 totalCoaches |-> Cardinality(DOMAIN coachesData),
                 activeCoaches |->
                   Cardinality({c \in DOMAIN coachesData :
                                  coachesData[c].is_active}),
                 mrr |-> SumFees(membersData, DOMAIN membersData),
                 revenueThisMonth |->
                   SumAmount({x \in paymentsData :
                                /\ x.status = "paid"
                                /\ \E d \in x.paid_date : d >= startOfMonth}),
                 pendingPayments |->
                   Cardinality({x \in paymentsData : x.status = "pending"}),
                 overduePayments |->
                   Cardinality({x \in paymentsData : x.status = "overdue"}),
                 overdueAmount |->
                   SumAmount({x \in paymentsData : x.status = "overdue"}),
                 todaySessionsCount |->
                   Cardinality({x \in sessionsData :
                                  x.start_time >= today
                                  /\ x.start_time < tomorrow}),
                 totalSessions |-> Cardinality(sessionsData),
                 alerts |-> overview.got["alerts"]]]
    /\ UNCHANGED <<now, members, coaches, member_visits, nextVisitId,
                   calls, tx, payments, sessions, alerts,
                   reportVars, teamVars>>

\* ------------------------------------------------- payments and reports
PaymentIds == {1, 2}

\* supabase.from('payments').insert(payment): the form supplies every
\* field of `p`; the member and the gym must exist (foreign keys)
PaymentsCreate(id, gym_id, p) ==
    /\ \A q \in payments : q.id # id
    /\ gym_id \in GymIds
    /\ p.member_id \in DOMAIN members
    /\ payments' = payments \cup
         {[id |-> id, gym_id |-> gym_id, member_id |-> p.member_id,
           amount |-> p.amount, status |-> p.status,
           due_date |-> p.due_date, paid_date |-> p.paid_date]}
    /\ UNCHANGED <<now, members, coaches, member_visits, nextVisitId, calls,
                   tx, sessions, alerts, overview, reportVars, teamVars>>

\* .update({ ...updates, updated_at }).eq('id', id): the fields of `p`
\* replace the row's; a member_id of no member or a gym_id of no gym is
\* refused by the foreign key, an id that another payment holds by the
\* primary key, and the row stays as it was
PaymentsUpdate(id, p) ==
    /\ \E q \in payments :
         /\ q.id = id
         /\ payments' =
              IF \/ "member_id" \in DOMAIN p /\ p.member_id \notin DOMAIN members
                 \/ "gym_id" \in DOMAIN p /\ p.gym_id \notin GymIds
                 \/ /\ "id" \in DOMAIN p
                    /\ p.id # id
                    /\ \E r \in payments : r.id = p.id
              THEN payments
              ELSE (payments \ {q}) \cup
                   {[f \in DOMAIN q |-> IF f \in DOMAIN p THEN p[f] ELSE q[f]]}
    /\ UNCHANGED <<now, members, coaches, member_visits, nextVisitId, calls,
                   tx, sessions, alerts, overview, reportVars, teamVars>>

\* .delete().eq('id', id)
PaymentsDelete(id) ==
    /\ \E q \in payments : q.id = id
    /\ payments' = {q \in payments : q.id # id}
    /\ UNCHANGED <<now, members, coaches, member_visits, nextVisitId, calls,
                   tx, sessions, alerts, overview, reportVars, teamVars>>

markPaidUndated(id) == PaymentsUpdate(id, [status |-> "paid"])
\* .update({ status: 'paid', paid_date: new Date().toISOString(), ... })
PaymentsMarkAsPaid(id) ==
    PaymentsUpdate(id, [status |-> "paid", paid_date |-> Some(now)])

anyUnpaid(rows, st) == {p \in rows : p.status # "paid"}
\* allPayments.filter((p) => p.status === st)
ByStatus(rows, st) == {p \in rows : p.status = st}

paidAnyDate(rows, start) ==
    {p \in rows : p.status = "paid" /\ p.paid_date # NULL}
paidUndated(rows, start) ==
    {p \in rows : p.status = "paid" /\ \A d \in p.paid_date : d >= start}
\* filter(p => p.status === 'paid' && p.paid_date &&
\*             new Date(p.paid_date) >= start)
PaidSince(rows, start) ==
    {p \in rows : p.status = "paid" /\ \E d \in p.paid_date : d >= start}

NoStats ==
    [state |-> "none", gym_id |-> "g1", startOfMonth |-> 0,
     allPayments |-> {}, revenueThisMonth |-> 0, pendingAmount |-> 0,
     overdueAmount |-> 0, totalPaid |-> 0]

\* paymentsService.getStats up to its await: the clock is read, the start
\* of the month computed and the request for the gym's rows sent
GetStats(gymId) ==
    /\ stats.state # "called"
    /\ stats' = [NoStats EXCEPT !.state = "called", !.gym_id = gymId,
                                !.startOfMonth = StartOfMonth(now)]
    /\ UNCHANGED <<now, members, coaches, member_visits, nextVisitId,
                   calls, tx, dashVars, byMonth, page, teamVars>>

\* paymentsService.getStats after the await: the database answers with the
\* rows the gym has now, which are summed against the start of the month
\* computed before; an error is thrown
GetStatsReturn(fail) ==
    LET startOfMonth == stats.startOfMonth
        allPayments == {p \in payments : p.gym_id = stats.gym_id}
    IN  /\ stats.state = "called"
        /\ stats' =
             IF fail THEN [stats EXCEPT !.state = "threw"]
             ELSE [state |-> "returned", gym_id |-> stats.gym_id,
                   startOfMonth |-> startOfMonth,
                   allPayments |-> allPayments,
                   revenueThisMonth |->
                     SumAmount(PaidSince(allPayments, startOfMonth)),
                   pendingAmount |-> SumAmount(ByStatus(allPayments, "pending")),
                   overdueAmount |-> SumAmount(ByStatus(allPayments, "overdue")),
                   totalPaid |-> SumAmount(ByStatus(allPayments, "paid"))]
        /\ UNCHANGED <<now, members, coaches, member_visits, nextVisitId,
                       calls, tx, dashVars, byMonth, page,
                       teamVars>>

keyNoYear(d) == <<0, (getMonth(d) + 1) \div 10, (getMonth(d) + 1) % 10>>
\* `${date.getFullYear()}-${String(date.getMonth() + 1).padStart(2, '0')}`:
\* the year and the two digits of the month
Key(d) ==
    <<getFullYear(d), (getMonth(d) + 1) \div 10, (getMonth(d) + 1) % 10>>

\* setMonth(getMonth() - months); setDate(1); setHours(0, 0, 0, 0)
WindowStart(n, months) ==
    LET startDate == setMonth(n, getMonth(n) - months)
    IN  setDate(startDate, 1)

RECURSIVE GroupByMonth(_, _)
\* data.forEach: each row with a paid_date adds its amount to the entry of
\* its key
GroupByMonth(data, revenueByMonth) ==
    IF data = {} THEN revenueByMonth
    ELSE LET payment == CHOOSE x \in data : TRUE
             key == Key(The(payment.paid_date))
             prev == IF key \in DOMAIN revenueByMonth
                     THEN revenueByMonth[key] ELSE 0
         IN GroupByMonth(data \ {payment},
              IF payment.paid_date # NULL
              THEN [k \in DOMAIN revenueByMonth \cup {key} |->
                      IF k = key THEN prev + payment.amount
                      ELSE revenueByMonth[k]]
              ELSE revenueByMonth)

DefaultMonths == 12
AnalyticsMonths == 6

NoByMonth ==
    [state |-> "none", gym_id |-> "g1", months |-> DefaultMonths,
     startDate |-> 0, revenueByMonth |-> <<>>]

\* paymentsService.getRevenueByMonth up to its await: the clock is read,
\* the start of the window computed and the request sent
GetRevenueByMonth(gymId, months) ==
    /\ byMonth.state # "called"
    /\ byMonth' = [NoByMonth EXCEPT !.state = "called", !.gym_id = gymId,
                                    !.months = months,
                                    !.startDate = WindowStart(now, months)]
    /\ UNCHANGED <<now, members, coaches, member_visits, nextVisitId,
                   calls, tx, dashVars, stats, page, teamVars>>

\* paymentsService.getRevenueByMonth after the await: the database answers
\* with the paid rows the gym has now whose paid_date >= startDate, which
\* are grouped; an error is thrown
GetRevenueByMonthReturn(fail) ==
    LET data == {p \in payments :
                   /\ p.gym_id = byMonth.gym_id
                   /\ p.status = "paid"
                   /\ \E d \in p.paid_date : d >= byMonth.startDate}
    IN  /\ byMonth.state = "called"
        /\ byMonth' =
             [byMonth EXCEPT
                !.state = IF fail THEN "threw" ELSE "returned",
                !.revenueByMonth =
                   IF fail THEN <<>> ELSE GroupByMonth(data, <<>>)]
        /\ UNCHANGED <<now, members, coaches, member_visits, nextVisitId,
                       calls, tx, dashVars, stats, page,
                       teamVars>>

\* date-fns startOfQuarter and startOfYear
StartOfQuarter(n) == DateOf(getFullYear(n), getMonth(n) - (getMonth(n) % 3), 1)
StartOfYear(n) == DateOf(getFullYear(n), 0, 1)

\* the page's query has no data and its memo has not run
NoPage ==
    [state |-> "none", gym_id |-> "g1", data |-> [g \in GymIds |-> NULL],
     payments |-> {},
     monthStart |-> 0, revenueMTD |-> 0, revenueQTD |-> 0,
     revenueYTD |-> 0, pendingAmount |-> 0, pendingCount |-> 0,
     overdueAmount |-> 0, overdueCount |-> 0]

\* FinancialOverview's useQuery(["payments", gymId],
\* paymentsService.getAll(gymId)) is answered: the rows the gym has now
\* become the data of the gym's query; on an error the query keeps the
\* data it has.  The figures on the page stay until the memo runs
FinancialFetch(gymId, fail) ==
    /\ gymId \in GymIds
    /\ page' =
         [page EXCEPT
            !.gym_id = gymId,
            !.data[gymId] =
               IF fail THEN @ ELSE Some({p \in payments : p.gym_id = gymId})]
    /\ UNCHANGED <<now, members, coaches, member_visits, nextVisitId,
                   calls, tx, dashVars, stats, byMonth, teamVars>>

\* FinancialOverview's stats memo runs (a render after the data changed, or
\* a mount): over the rows the query holds, fetched earlier (`data:
\* payments = []` when it has none), and the clock as it is read now
FinancialStats ==
    LET data == page.data[page.gym_id]
        rows == IF data = NULL THEN {} ELSE The(data)
        paidPayments == {p \in rows : p.status = "paid" /\ p.paid_date # NULL}
        since(start) == {p \in paidPayments : The(p.paid_date) >= start}
        overduePayments == {p \in rows : p.status = "overdue"}
    IN  /\ page' =
             [state |-> IF data = NULL THEN "nodata" ELSE "computed",
              gym_id |-> page.gym_id,
              data |-> page.data,
              payments |-> rows,
              monthStart |-> StartOfMonth(now),
              revenueMTD |-> SumAmount(since(StartOfMonth(now))),
              revenueQTD |-> SumAmount(since(StartOfQuarter(now))),
              revenueYTD |-> SumAmount(since(StartOfYear(now))),
              pendingAmount |->
                SumAmount({p \in rows : p.status = "pending"}),
              pendingCount |->
                Cardinality({p \in rows : p.status = "pending"}),
              overdueAmount |-> SumAmount(overduePayments),
              overdueCount |-> Cardinality(overduePayments)]
        /\ UNCHANGED <<now, members, coaches, member_visits, nextVisitId,
                       calls, tx, dashVars, stats, byMonth,
                       teamVars>>

\* coachesService.toggleActive: .update({ is_active: isActive, ... })
\* .eq('id', id).select().single()
CoachesToggleActive(id, isActive) ==
    /\ id \in DOMAIN coaches
    /\ coaches' = [coaches EXCEPT ![id].is_active = isActive]
    /\ UNCHANGED <<now, members, member_visits, nextVisitId, calls, tx,
                   dashVars, reportVars, teamVars>>

\* the row coachesService.create inserts: the columns of the body replace
\* the column defaults of CREATE TABLE coaches
CoachRow(gym_id, p) ==
    LET defaults == [gym_id |-> gym_id, client_count |-> 0, is_active |-> TRUE]
    IN  [f \in DOMAIN defaults |-> IF f \in DOMAIN p THEN p[f] ELSE defaults[f]]

\* coachesService.create: insert(coach); the gym of the row must exist
\* (foreign key)
CoachesCreate(id, gym_id, p) ==
    /\ id \notin DOMAIN coaches
    /\ CoachRow(gym_id, p).gym_id \in GymIds
    /\ coaches' =
         [c \in DOMAIN coaches \cup {id} |->
            IF c = id THEN CoachRow(gym_id, p) ELSE coaches[c]]
    /\ UNCHANGED <<now, members, member_visits, nextVisitId, calls, tx,
                   dashVars, reportVars, teamVars>>

\* the columns of the body `p` written over coach row x
CoachUpdated(x, p) == [f \in DOMAIN x |-> IF f \in DOMAIN p THEN p[f] ELSE x[f]]

\* coachesService.update: .update({ ...updates, updated_at }).eq('id', id):
\* any column of the body is written, client_count included; a gym_id of
\* no gym is refused by the foreign key; a body that names another id is
\* refused when that id is taken (primary key) or when a member or a
\* session names the coach (foreign keys without ON UPDATE)
CoachesUpdate(id, p) ==
    /\ id \in DOMAIN coaches
    /\ CoachUpdated(coaches[id], p).gym_id \in GymIds
    /\ IF "id" \in DOMAIN p
       THEN \/ p.id = id
            \/ /\ p.id \notin DOMAIN coaches
               /\ \A m \in DOMAIN members : id \notin members[m].coach_id
               /\ \A x \in sessions : x.coach_id # id
       ELSE TRUE
    /\ LET newId == IF "id" \in DOMAIN p THEN p.id ELSE id
       IN  coaches' =
             [c \in (DOMAIN coaches \ {id}) \cup {newId} |->
                IF c = newId THEN CoachUpdated(coaches[id], p)
                ELSE coaches[c]]
    /\ UNCHANGED <<now, members, member_visits, nextVisitId, calls, tx,
                   dashVars, reportVars, teamVars>>

\* coachesService.delete: the coach row goes; members.coach_id of its
\* members is SET NULL, an update that fires update_members_updated_at and
\* update_coach_clients for each of them (TG_OP = UPDATE, NEW.coach_id
\* NULL); its sessions cascade, and
\* with them their participants
CoachesDelete(id) ==
    /\ id \in DOMAIN coaches
    /\ LET ms == [m \in DOMAIN members |->
                    IF id \in members[m].coach_id
                    THEN update_updated_at(
                           [members[m] EXCEPT !.coach_id = NULL], now)
                    ELSE members[m]]
           cs == [c \in DOMAIN coaches \ {id} |-> coaches[c]]
           gone == {x \in sessions : x.coach_id = id}
       IN /\ members' = ms
          /\ coaches' = update_coach_client_count(cs, ms, "UPDATE",
                                                  Some(id), NULL)
          /\ sessions' = sessions \ gone
          /\ session_participants' =
               {r \in session_participants :
                  \A x \in gone : r.session_id # x.id}
    /\ UNCHANGED <<now, member_visits, nextVisitId, calls, tx, payments,
                   alerts, overview, reportVars, staffVars>>

\* ------------------------------------------- profiles and row security
NoReply ==
    [op |-> "none", error |-> FALSE, profile_id |-> "u1", gym_id |-> "g1",
     alert_id |-> 0, rows |-> 0]

\* u1 owns gym g1 and u2 is a coach there; u1 is signed in
InitProfiles ==
    [u \in UserIds |->
       IF u = "u1" THEN [gym_id |-> Some("g1"), role |-> "owner"]
       ELSE [gym_id |-> Some("g1"), role |-> "coach"]]

\* const DEV_MODE = true: the `user` of AuthContext starts as the mock user,
\* whose id is the id of no profile
DevUser == "dev-user-001"

\* no signUp and no signOut of AuthContext is under way
NoAuthCalls ==
    [signUp |-> [pc |-> "idle", u |-> "u1", gymName |-> FALSE, uid |-> Anon],
     signOut |-> "idle"]

\* no addParticipant or removeParticipant is under way
IdleParticipantCall == [pc |-> "idle", sessionId |-> 1, memberId |-> "m1"]

\* useState<User | null>(DEV_MODE ? { id: 'dev-user-001', ... } : null); the
\* effect that would follow the session returns at once
InitAuth ==
    /\ user = Some(DevUser)
    /\ authCalls = NoAuthCalls
    /\ participantCalls = [k \in CallIds |-> IdleParticipantCall]

InitTeam ==
    /\ auth_uid = "u1"
    /\ auth_users = UserIds
    /\ profiles = InitProfiles
    /\ messages = {}
    /\ session_participants = {}
    /\ reply = NoReply
    /\ InitAuth

\* AuthContext.signIn: supabase.auth.signInWithPassword, one request; a
\* registered user signs in.  The listener that would set `user` is not
\* installed (DEV_MODE), so `user` stays as it is
SignIn(u) ==
    /\ u \in auth_users
    /\ auth_uid # u
    /\ auth_uid' = u
    /\ UNCHANGED <<now, members, coaches, member_visits, nextVisitId, calls,
                   tx, dashVars, reportVars, auth_users, profiles, messages,
                   session_participants, reply, user, authCalls,
                   participantCalls>>

\* AuthContext.signOut, the awaited supabase.auth.signOut(): the client
\* holds no session any more
SignOut ==
    /\ authCalls.signOut = "idle"
    /\ auth_uid' = Anon
    /\ authCalls' = [authCalls EXCEPT !.signOut = "signedOut"]
    /\ UNCHANGED <<now, members, coaches, member_visits, nextVisitId, calls,
                   tx, dashVars, reportVars, auth_users, profiles, messages,
                   session_participants, reply, user, participantCalls>>

\* AuthContext.signOut after the await: setUser(null)
SignOutReturn ==
    /\ authCalls.signOut = "signedOut"
    /\ user' = NULL
    /\ authCalls' = [authCalls EXCEPT !.signOut = "idle"]
    /\ UNCHANGED <<now, members, coaches, member_visits, nextVisitId, calls,
                   tx, dashVars, reportVars, auth_uid, auth_users, profiles,
                   messages, session_participants, reply, participantCalls>>

\* the id of the gym a sign-up with a gym name inserts
NewGym == "g3"

\* AuthContext.signUp, the awaited supabase.auth.signUp: it registers the
\* user and, when `session`, leaves them signed in.  With an error the call
\* returns it; else the next request (the insert of the gym, or of the
\* profile when there is no gym name) is sent with the token the client
\* holds now, `uid`
SignUp(u, gymName, session, fail) ==
    LET error == fail \/ u \in auth_users
        uid == IF ~error /\ session THEN u ELSE auth_uid
    IN  /\ authCalls.signUp.pc = "idle"
        /\ auth_users' = IF error THEN auth_users ELSE auth_users \cup {u}
        /\ auth_uid' = uid
        /\ authCalls' =
             [authCalls EXCEPT !.signUp =
                IF error THEN NoAuthCalls.signUp
                ELSE [pc |-> "registered", u |-> u, gymName |-> gymName,
                      uid |-> uid]]
        /\ reply' = IF error
                    THEN [NoReply EXCEPT !.op = "signUp", !.error = TRUE,
                                         !.profile_id = u]
                    ELSE reply
        /\ UNCHANGED <<now, members, coaches, member_visits, nextVisitId,
                       calls, tx, dashVars, reportVars, profiles, messages,
                       session_participants, user, participantCalls>>

\* AuthContext.signUp with a gym name, the awaited insert of the gym with
\* .select().single(): the inserted row (NewGym, which no row of profiles
\* names yet) must pass the SELECT policy of gyms, "Users can view their
\* gym" (the staff table is written nowhere), or the insert is refused, the
\* error logged and the call returns without a profile.  When it is
\* accepted the insert of the profile is sent with the token the client
\* holds now
SignUpInsertGym ==
    LET c == authCalls.signUp
        gymData == StaffOfGym(c.uid, NewGym)
    IN  /\ c.pc = "registered"
        /\ c.gymName
        /\ authCalls' =
             [authCalls EXCEPT !.signUp =
                IF gymData
                THEN [c EXCEPT !.pc = "gymInserted", !.uid = auth_uid]
                ELSE NoAuthCalls.signUp]
        /\ reply' = IF gymData THEN reply
                    ELSE [NoReply EXCEPT !.op = "signUp",
                                         !.profile_id = c.u]
        /\ UNCHANGED <<now, members, coaches, member_visits, nextVisitId,
                       calls, tx, dashVars, reportVars, auth_uid, auth_users,
                       profiles, messages, session_participants, user,
                       participantCalls>>

\* AuthContext.signUp, the awaited insert of the profile: as owner of the
\* new gym, or without a gym name as a coach of no gym.  "Users can insert
\* own profile" lets it through for the signed-up user's own token only;
\* the error of the insert is logged and the call returns the error of
\* auth.signUp, none
SignUpInsertProfile ==
    LET c == authCalls.signUp
        row == IF c.gymName
               THEN [gym_id |-> Some(NewGym), role |-> "owner"]
               ELSE [gym_id |-> NULL, role |-> "coach"]
        inserted == OwnProfile(c.uid, c.u) /\ c.u \notin DOMAIN profiles
    IN  /\ \/ c.pc = "gymInserted"
           \/ c.pc = "registered" /\ ~c.gymName
        /\ profiles' =
             IF ~inserted THEN profiles
             ELSE [p \in DOMAIN profiles \cup {c.u} |->
                     IF p = c.u THEN row ELSE profiles[p]]
        /\ authCalls' = [authCalls EXCEPT !.signUp = NoAuthCalls.signUp]
        /\ reply' = [NoReply EXCEPT !.op = "signUp", !.profile_id = c.u]
        /\ UNCHANGED <<now, members, coaches, member_visits, nextVisitId,
                       calls, tx, dashVars, reportVars, auth_uid, auth_users,
                       messages, session_participants, user,
                       participantCalls>>

\* staff_role
StaffRoles == {"owner", "admin", "manager", "coach", "receptionist"}

\* an UPDATE of profiles for id = `id` with the columns of `updates`, sent
\* with the token of user u: the error it is answered with.  A role that is
\* no staff_role is refused as input; when a row is reached ("Users can
\* update own profile": the caller's own row) a gym_id of no gym is refused
\* by the foreign key, and a body that names another id is refused because
\* the policy has no WITH CHECK, so its USING (auth.uid() = id) is applied
\* to the row as written (the primary key refuses an id that is taken too)
ProfilesUpdateError(ps, u, id, updates) ==
    \/ "role" \in DOMAIN updates /\ updates.role \notin StaffRoles
    \/ /\ id \in DOMAIN ps
       /\ OwnProfile(u, id)
       /\ \/ /\ "gym_id" \in DOMAIN updates
             /\ ~(updates.gym_id \subseteq GymIds)
          \/ /\ "id" \in DOMAIN updates
             /\ ~OwnProfile(u, updates.id)

\* the table after that UPDATE
ProfilesUpdate(ps, u, id, updates) ==
    [p \in DOMAIN ps |->
       IF p = id /\ OwnProfile(u, p) /\ ~ProfilesUpdateError(ps, u, id, updates)
       THEN [f \in DOMAIN ps[p] |->
               IF f \in DOMAIN updates THEN updates[f] ELSE ps[p][f]]
       ELSE ps[p]]

\* AuthContext.updateProfile: without a `user` an error is returned and no
\* request is made; else .update(updates).eq('id', user.id) is sent with
\* the token the client holds.  `user` is the state of AuthContext, not
\* the session: the mock user until a signOut has returned, nobody after.
\* `fail`: the request is answered with an error
UpdateProfile(updates, fail) ==
    LET sent == user # NULL
        error == \/ ~sent
                 \/ fail
                 \/ ProfilesUpdateError(profiles, auth_uid, The(user), updates)
    IN  /\ profiles' =
             IF sent /\ ~fail
             THEN ProfilesUpdate(profiles, auth_uid, The(user), updates)
             ELSE profiles
        /\ reply' = [NoReply EXCEPT !.op = "updateProfile",
                                    !.error = error,
                                    !.profile_id =
                                       IF sent THEN The(user) ELSE "u1"]
        /\ UNCHANGED <<now, members, coaches, member_visits, nextVisitId,
                       calls, tx, dashVars, reportVars, auth_uid, auth_users,
                       messages, session_participants, user, authCalls,
                       participantCalls>>

\* settingsService.updateStaff: .update({ ...updates, updated_at })
\* .eq('id', profileId).select().single(): the policy shows the caller
\* their own row only, and .single() makes no returned row an error, which
\* is thrown
UpdateStaff(profileId, updates, fail) ==
    LET reached == profileId \in DOMAIN profiles
                   /\ OwnProfile(auth_uid, profileId)
        error == \/ fail
                 \/ ~reached
                 \/ ProfilesUpdateError(profiles, auth_uid, profileId, updates)
    IN  /\ profiles' =
             IF fail THEN profiles
             ELSE ProfilesUpdate(profiles, auth_uid, profileId, updates)
        /\ reply' = [NoReply EXCEPT !.op = "updateStaff", !.error = error,
                                    !.profile_id = profileId]
        /\ UNCHANGED <<now, members, coaches, member_visits, nextVisitId,
                       calls, tx, dashVars, reportVars, auth_uid, auth_users,
                       messages, session_participants, user, authCalls,
                       participantCalls>>

\* settingsService.updateStaffRole: .update({ role, updated_at })
\* .eq('id', profileId).select().single()
UpdateStaffRole(profileId, role, fail) ==
    LET updates == [role |-> role]
        reached == profileId \in DOMAIN profiles
                   /\ OwnProfile(auth_uid, profileId)
        error == \/ fail
                 \/ ~reached
                 \/ ProfilesUpdateError(profiles, auth_uid, profileId, updates)
    IN  /\ profiles' =
             IF fail THEN profiles
             ELSE ProfilesUpdate(profiles, auth_uid, profileId, updates)
        /\ reply' = [NoReply EXCEPT !.op = "updateStaffRole",
                                    !.error = error,
                                    !.profile_id = profileId]
        /\ UNCHANGED <<now, members, coaches, member_visits, nextVisitId,
                       calls, tx, dashVars, reportVars, auth_uid, auth_users,
                       messages, session_participants, user, authCalls,
                       participantCalls>>

\* settingsService.removeStaff: .update({ gym_id: null }).eq('id',
\* profileId), no .select(): the policy hides every row but the caller's
\* own, and an update that matches no row is no error
RemoveStaff(profileId, fail) ==
    /\ profiles' =
         [p \in DOMAIN profiles |->
            IF ~fail /\ p = profileId /\ OwnProfile(auth_uid, p)
            THEN [profiles[p] EXCEPT !.gym_id = NULL] ELSE profiles[p]]
    /\ reply' = [NoReply EXCEPT !.op = "removeStaff", !.error = fail,
                                !.profile_id = profileId]
    /\ UNCHANGED <<now, members, coaches, member_visits, nextVisitId, calls,
                   tx, dashVars, reportVars, auth_uid, auth_users, user, authCalls,
                   participantCalls, messages,
                   session_participants>>

\* settingsService.getStaff as user u: select('*').eq('gym_id', gymId)
\* over the rows the SELECT policy shows
getStaff(u, gymId) ==
    {p \in DOMAIN profiles : OwnProfile(u, p) /\ gymId \in profiles[p].gym_id}

\* the member rows the SELECT policy shows to user u
SelectMembers(u) ==
    {m \in DOMAIN members : StaffOfGym(u, members[m].gym_id)}

\* the payment rows the SELECT policy shows to user u
SelectPayments(u) == {q \in payments : StaffOfGym(u, q.gym_id)}

\* membersService.create as the signed-in user: the WITH CHECK of the
\* members policy, the foreign keys of gym_id and coach_id (checked outside
\* the policies), and the trigger run as that user
RlsMembersCreate(id, gym_id, p) ==
    /\ StaffOfGym(auth_uid, ApplyPayload(MemberDefaults(gym_id), p).gym_id)
    /\ id \notin DOMAIN members
    /\ ApplyPayload(MemberDefaults(gym_id), p).gym_id \in GymIds
    /\ ~Rejected(p)
    /\ CoachExists(ApplyPayload(MemberDefaults(gym_id), p).coach_id)
    /\ LET row == ApplyPayload(MemberDefaults(gym_id), p)
           ms == [m \in DOMAIN members \cup {id} |->
                     IF m = id THEN row ELSE members[m]]
       IN /\ members' = ms
          /\ coaches' = update_coach_client_count_as(auth_uid, coaches, ms,
                                                     "INSERT", NULL,
                                                     row.coach_id)
    /\ UNCHANGED <<now, member_visits, nextVisitId, calls, tx, dashVars,
                   reportVars, teamVars>>

\* membersService.delete as the signed-in user; the trigger runs as that
\* user, the cascades to member_visits, payments and session_participants
\* run as referential actions, outside the policies
RlsMembersDelete(id) ==
    /\ id \in DOMAIN members
    /\ StaffOfGym(auth_uid, members[id].gym_id)
    /\ LET ms == [m \in DOMAIN members \ {id} |-> members[m]]
       IN /\ members' = ms
          /\ coaches' = update_coach_client_count_as(auth_uid, coaches, ms,
                                "DELETE", members[id].coach_id, NULL)
    /\ member_visits' = member_visits \ VisitsOf(id)
    /\ payments' = {q \in payments : q.member_id # id}
    /\ session_participants' =
         {r \in session_participants : r.member_id # id}
    /\ UNCHANGED <<now, nextVisitId, calls, tx, sessions, alerts, overview,
                   reportVars, staffVars>>

\* paymentsService.create as the signed-in user; member_id is checked by
\* the foreign key only
RlsPaymentsCreate(id, gym_id, p) ==
    /\ StaffOfGym(auth_uid, gym_id)
    /\ PaymentsCreate(id, gym_id, p)

\* paymentsService.markAsPaid as the signed-in user
RlsPaymentsMarkAsPaid(id) ==
    /\ \E q \in payments : q.id = id /\ StaffOfGym(auth_uid, q.gym_id)
    /\ PaymentsMarkAsPaid(id)

\* coachesService.toggleActive as the signed-in user
RlsCoachesToggleActive(id, isActive) ==
    /\ id \in DOMAIN coaches
    /\ ManagerOfGym(auth_uid, coaches[id].gym_id)
    /\ CoachesToggleActive(id, isActive)

\* coachesService.create as the signed-in user: "Admins can manage
\* coaches" has no WITH CHECK, so its USING is applied to the inserted row
RlsCoachesCreate(id, gym_id, p) ==
    /\ ManagerOfGym(auth_uid, CoachRow(gym_id, p).gym_id)
    /\ CoachesCreate(id, gym_id, p)

\* coachesService.update as the signed-in user: the policy must show the
\* row as it is and accept the row as it is written
RlsCoachesUpdate(id, p) ==
    /\ id \in DOMAIN coaches
    /\ ManagerOfGym(auth_uid, coaches[id].gym_id)
    /\ ManagerOfGym(auth_uid, CoachUpdated(coaches[id], p).gym_id)
    /\ CoachesUpdate(id, p)

\* coachesService.delete as the signed-in user; SET NULL on members and
\* the cascade to sessions run as referential actions, outside the policies
RlsCoachesDelete(id) ==
    /\ id \in DOMAIN coaches
    /\ ManagerOfGym(auth_uid, coaches[id].gym_id)
    /\ CoachesDelete(id)

\* the alert rows an UPDATE of user u may touch ("Staff can manage alerts")
AlertsPolicy(u, gym_id) == StaffOfGym(u, gym_id)

\* dashboardService.markAlertAsRead: .update({ is_read: true }).eq('id',
\* alertId); an update that matches no row is no error
MarkAlertAsRead(alertId, fail) ==
    /\ alerts' =
         {IF ~fail /\ a.id = alertId /\ AlertsPolicy(auth_uid, a.gym_id)
          THEN [a EXCEPT !.is_read = TRUE] ELSE a : a \in alerts}
    /\ reply' = [NoReply EXCEPT !.op = "markAlertAsRead", !.error = fail,
                                !.alert_id = alertId]
    /\ UNCHANGED <<now, members, coaches, member_visits, nextVisitId, calls,
                   tx, payments, sessions, overview, reportVars, auth_uid,
                   auth_users, user, authCalls,
                   participantCalls, profiles, messages, session_participants>>

\* dashboardService.dismissAllAlerts: .update({ is_read: true })
\* .eq('gym_id', gymId)
DismissAllAlerts(gymId, fail) ==
    /\ alerts' =
         {IF ~fail /\ a.gym_id = gymId /\ AlertsPolicy(auth_uid, a.gym_id)
          THEN [a EXCEPT !.is_read = TRUE] ELSE a : a \in alerts}
    /\ reply' = [NoReply EXCEPT !.op = "dismissAllAlerts", !.error = fail,
                                !.gym_id = gymId]
    /\ UNCHANGED <<now, members, coaches, member_visits, nextVisitId, calls,
                   tx, payments, sessions, overview, reportVars, auth_uid,
                   auth_users, user, authCalls,
                   participantCalls, profiles, messages, session_participants>>

\* ------------------------------------------------- session participants
SessionIds == {1, 2}

\* UPDATE sessions SET current_participants = current_participants + 1
\* WHERE id = session_uuid
increment_session_participants(ss, session_uuid) ==
    {IF x.id = session_uuid
     THEN [x EXCEPT !.current_participants = @ + 1] ELSE x : x \in ss}

\* ... SET current_participants = GREATEST(0, current_participants - 1)
decrement_session_participants(ss, session_uuid) ==
    {IF x.id = session_uuid
     THEN [x EXCEPT !.current_participants =
                       IF @ - 1 > 0 THEN @ - 1 ELSE 0]
     ELSE x : x \in ss}

\* an awaited supabase.rpc(fn, args) runs the function whose argument names
\* are those of args; with other names no function is found, the response
\* carries an error, and the caller that does not read it goes on; the two
\* functions declare the argument session_uuid
RpcSessions(ss, fn, args) ==
    IF DOMAIN args # {"session_uuid"} THEN ss
    ELSE IF fn = "increment_session_participants"
         THEN increment_session_participants(ss, args.session_uuid)
         ELSE decrement_session_participants(ss, args.session_uuid)

\* "Staff can manage session participants": the row's session is one of
\* the user's gym
ParticipantsPolicy(u, session_id) ==
    \E x \in sessions : x.id = session_id /\ StaffOfGym(u, x.gym_id)

\* sessionsService.addParticipant, the awaited insert ... .select()
\* .single(): it fails on a duplicate (session_id, member_id), a missing
\* session or member, or a row the policy rejects, and the error is thrown;
\* else the call goes on to its rpc
AddParticipant(k, sessionId, memberId, fail) ==
    LET row == [session_id |-> sessionId, member_id |-> memberId]
        error == \/ fail
                 \/ row \in session_participants
                 \/ \A x \in sessions : x.id # sessionId
                 \/ memberId \notin DOMAIN members
                 \/ ~ParticipantsPolicy(auth_uid, sessionId)
    IN  /\ participantCalls[k].pc = "idle"
        /\ session_participants' =
             IF error THEN session_participants
             ELSE session_participants \cup {row}
        /\ participantCalls' =
             [participantCalls EXCEPT ![k] =
                IF error THEN IdleParticipantCall
                ELSE [pc |-> "inserted", sessionId |-> sessionId,
                      memberId |-> memberId]]
        /\ reply' = IF error
                    THEN [NoReply EXCEPT !.op = "addParticipant",
                                         !.error = TRUE]
                    ELSE reply
        /\ UNCHANGED <<now, members, coaches, member_visits, nextVisitId,
                       calls, tx, dashVars, reportVars, auth_uid, auth_users,
                       profiles, messages, user, authCalls>>

\* sessionsService.addParticipant, the awaited rpc whose result is dropped;
\* the call returns the inserted row
AddParticipantRpc(k) ==
    /\ participantCalls[k].pc = "inserted"
    /\ sessions' =
         RpcSessions(sessions, "increment_session_participants",
                     [session_id |-> participantCalls[k].sessionId])
    /\ participantCalls' = [participantCalls EXCEPT ![k] = IdleParticipantCall]
    /\ reply' = [NoReply EXCEPT !.op = "addParticipant"]
    /\ UNCHANGED <<now, members, coaches, member_visits, nextVisitId,
                   calls, tx, payments, alerts, overview, reportVars,
                   auth_uid, auth_users, profiles, messages,
                   session_participants, user, authCalls>>

\* sessionsService.removeParticipant, the awaited delete of the rows of the
\* session and member the policy shows; an error is thrown
RemoveParticipant(k, sessionId, memberId, fail) ==
    /\ participantCalls[k].pc = "idle"
    /\ session_participants' =
         IF fail THEN session_participants
         ELSE {r \in session_participants :
                 ~(/\ r.session_id = sessionId
                   /\ r.member_id = memberId
                   /\ ParticipantsPolicy(auth_uid, r.session_id))}
    /\ participantCalls' =
         [participantCalls EXCEPT ![k] =
            IF fail THEN IdleParticipantCall
            ELSE [pc |-> "deleted", sessionId |-> sessionId,
                  memberId |-> memberId]]
    /\ reply' = IF fail
                THEN [NoReply EXCEPT !.op = "removeParticipant",
                                     !.error = TRUE]
                ELSE reply
    /\ UNCHANGED <<now, members, coaches, member_visits, nextVisitId,
                   calls, tx, dashVars, reportVars, auth_uid, auth_users,
                   profiles, messages, user, authCalls>>

\* sessionsService.removeParticipant, the awaited rpc; the call returns
RemoveParticipantRpc(k) ==
    /\ participantCalls[k].pc = "deleted"
    /\ sessions' =
         RpcSessions(sessions, "decrement_session_participants",
                     [session_id |-> participantCalls[k].sessionId])
    /\ participantCalls' = [participantCalls EXCEPT ![k] = IdleParticipantCall]
    /\ reply' = [NoReply EXCEPT !.op = "removeParticipant"]
    /\ UNCHANGED <<now, members, coaches, member_visits, nextVisitId,
                   calls, tx, payments, alerts, overview, reportVars,
                   auth_uid, auth_users, profiles, messages,
                   session_participants, user, authCalls>>

\* session_status
SessionStatuses == {"scheduled", "completed", "cancelled", "no_show"}

\* "Staff can manage sessions", FOR ALL with USING and no WITH CHECK: the
\* rows of the user's gym, for the row read and for the row written
SessionsPolicy(u, gym_id) == StaffOfGym(u, gym_id)

\* the columns of `p` written over the session row x
SessionRow(x, p) == [f \in DOMAIN x |-> IF f \in DOMAIN p THEN p[f] ELSE x[f]]

\* a session row the table refuses: a gym or a coach that does not exist
\* (foreign keys) or a status that is no session_status
SessionRefused(x) ==
    \/ x.gym_id \notin GymIds
    \/ x.coach_id \notin DOMAIN coaches
    \/ x.status \notin SessionStatuses

\* sessionsService.create: insert(session).select().single(); the columns
\* of the body replace the column defaults of CREATE TABLE sessions, and a
\* body without one of the NOT NULL columns that have no default is
\* refused; `id` is the generated default of the id column, which the body
\* may replace, and a row whose id a session holds is refused (primary
\* key); the new row must pass the policy; an error is thrown
SessionsCreate(id, session, fail) ==
    LET required == {"gym_id", "coach_id", "start_time"}
        defaults == [id |-> id, status |-> "scheduled",
                     max_participants |-> 1, current_participants |-> 0]
        row == [f \in DOMAIN defaults \cup required |->
                  IF f \in DOMAIN session THEN session[f] ELSE defaults[f]]
        error == \/ fail
                 \/ ~(required \subseteq DOMAIN session)
                 \/ SessionRefused(row)
                 \/ \E x \in sessions : x.id = row.id
                 \/ ~SessionsPolicy(auth_uid, row.gym_id)
    IN  /\ \A x \in sessions : x.id # id
        /\ sessions' = IF error THEN sessions ELSE sessions \cup {row}
        /\ reply' = [NoReply EXCEPT !.op = "sessions.create",
                                    !.error = error]
        /\ UNCHANGED <<now, members, coaches, member_visits, nextVisitId,
                       calls, tx, payments, alerts, overview, reportVars,
                       auth_uid, auth_users, profiles, messages,
                       session_participants, user, authCalls,
                       participantCalls>>

\* sessionsService.update: .update({ ...updates, updated_at }).eq('id', id)
\* .select().single(): any column of the body is written,
\* current_participants included; the row must be one the policy shows and
\* the row written one it accepts; another id is refused when a session
\* holds it (primary key) or a participant row names this session (foreign
\* key without ON UPDATE); .single() makes no returned row an error
SessionsUpdate(id, updates, fail) ==
    LET rows == {x \in sessions :
                   x.id = id /\ SessionsPolicy(auth_uid, x.gym_id)}
        refused == \E x \in rows :
                      \/ SessionRefused(SessionRow(x, updates))
                      \/ ~SessionsPolicy(auth_uid,
                                         SessionRow(x, updates).gym_id)
                      \/ /\ SessionRow(x, updates).id # x.id
                         /\ \/ \E y \in sessions :
                                  y.id = SessionRow(x, updates).id
                            \/ \E r \in session_participants :
                                  r.session_id = x.id
        error == fail \/ rows = {} \/ refused
    IN  /\ sessions' =
             IF error THEN sessions
             ELSE {IF x \in rows THEN SessionRow(x, updates) ELSE x :
                     x \in sessions}
        /\ reply' = [NoReply EXCEPT !.op = "sessions.update",
                                    !.error = error]
        /\ UNCHANGED <<now, members, coaches, member_visits, nextVisitId,
                       calls, tx, payments, alerts, overview, reportVars,
                       auth_uid, auth_users, profiles, messages,
                       session_participants, user, authCalls,
                       participantCalls>>

\* sessionsService.updateStatus: .update({ status, updated_at })
\* .eq('id', id).select().single()
SessionsUpdateStatus(id, status, fail) ==
    LET rows == {x \in sessions :
                   x.id = id /\ SessionsPolicy(auth_uid, x.gym_id)}
        error == fail \/ rows = {} \/ status \notin SessionStatuses
    IN  /\ sessions' =
             IF error THEN sessions
             ELSE {IF x \in rows THEN [x EXCEPT !.status = status] ELSE x :
                     x \in sessions}
        /\ reply' = [NoReply EXCEPT !.op = "sessions.updateStatus",
                                    !.error = error]
        /\ UNCHANGED <<now, members, coaches, member_visits, nextVisitId,
                       calls, tx, payments, alerts, overview, reportVars,
                       auth_uid, auth_users, profiles, messages,
                       session_participants, user, authCalls,
                       participantCalls>>

\* sessionsService.delete: .delete().eq('id', id): the row goes when the
\* policy shows it, and its participants with it (ON DELETE CASCADE, outside
\* the policies); a delete that matches no row is no error
SessionsDelete(id, fail) ==
    LET gone == {x \in sessions :
                   ~fail /\ x.id = id /\ SessionsPolicy(auth_uid, x.gym_id)}
    IN  /\ sessions' = sessions \ gone
        /\ session_participants' =
             {r \in session_participants :
                \A x \in gone : r.session_id # x.id}
        /\ reply' = [NoReply EXCEPT !.op = "sessions.delete",
                                    !.error = fail]
        /\ UNCHANGED <<now, members, coaches, member_visits, nextVisitId,
                       calls, tx, payments, alerts, overview, reportVars,
                       auth_uid, auth_users, profiles, messages, user,
                       authCalls, participantCalls>>

\* ------------------------------------------------------------- messages
MessageIds == {1, 2, 3}

\* "Users can view their messages" (SELECT)
MessagesSelectPolicy(u, m) ==
    \/ m.sender_id = u
    \/ u \in m.recipient_id
    \/ (m.is_broadcast /\ StaffOfGym(u, m.gym_id))

\* "Users can send messages" (INSERT)
MessagesInsertPolicy(u, m) == m.sender_id = u /\ StaffOfGym(u, m.gym_id)

\* row security is enabled on messages and no policy names UPDATE: no row
\* can be updated
MessagesUpdatePolicy(u, m) == FALSE

\* nor does one name DELETE: no row can be deleted
MessagesDeletePolicy(u, m) == FALSE

\* .eq('gym_id', gymId).or(`recipient_id.eq.${userId},is_broadcast.eq.true`)
InboxFilter(m, gymId, userId) ==
    m.gym_id = gymId /\ (userId \in m.recipient_id \/ m.is_broadcast)

\* messagesService.send / sendBroadcast: insert ... .select().single()
InsertMessage(op, m, fail) ==
    LET error == \/ fail
                 \/ ~MessagesInsertPolicy(auth_uid, m)
                 \/ m.gym_id \notin GymIds
                 \/ m.sender_id \notin DOMAIN profiles
                 \/ \E r \in m.recipient_id : r \notin DOMAIN profiles
    IN  /\ \A x \in messages : x.id # m.id
        /\ messages' = IF error THEN messages ELSE messages \cup {m}
        /\ reply' = [NoReply EXCEPT !.op = op, !.error = error,
                                    !.gym_id = m.gym_id]
        /\ UNCHANGED <<now, members, coaches, member_visits, nextVisitId,
                       calls, tx, dashVars, reportVars, auth_uid, auth_users, user, authCalls,
                   participantCalls,
                       profiles,
                       session_participants>>

Send(id, gymId, senderId, recipientId, fail) ==
    InsertMessage("send",
                  [id |-> id, gym_id |-> gymId, sender_id |-> senderId,
                   recipient_id |-> Some(recipientId), is_broadcast |-> FALSE,
                   is_read |-> FALSE], fail)

SendBroadcast(id, gymId, senderId, fail) ==
    InsertMessage("sendBroadcast",
                  [id |-> id, gym_id |-> gymId, sender_id |-> senderId,
                   recipient_id |-> NULL, is_broadcast |-> TRUE,
                   is_read |-> FALSE], fail)

\* the rows an UPDATE of the signed-in user reaches: those it may read and
\* may update
Updatable(m) ==
    MessagesSelectPolicy(auth_uid, m) /\ MessagesUpdatePolicy(auth_uid, m)

\* messagesService.markAsRead: update ... .eq('id', id).select().single();
\* .single() makes anything but one returned row an error
MarkAsRead(id, fail) ==
    LET rows == {m \in messages : m.id = id /\ Updatable(m)}
        error == fail \/ Cardinality(rows) # 1
    IN  /\ messages' =
             IF fail THEN messages
             ELSE {IF m \in rows THEN [m EXCEPT !.is_read = TRUE] ELSE m :
                     m \in messages}
        /\ reply' = [NoReply EXCEPT !.op = "markAsRead", !.error = error]
        /\ UNCHANGED <<now, members, coaches, member_visits, nextVisitId,
                       calls, tx, dashVars, reportVars, auth_uid, auth_users, user, authCalls,
                   participantCalls,
                       profiles,
                       session_participants>>

\* messagesService.markAllAsRead: update ... .eq('gym_id', gymId).or(...)
\* .eq('is_read', false); only an error is looked at
MarkAllAsRead(gymId, userId, fail) ==
    LET rows == {m \in messages : /\ InboxFilter(m, gymId, userId)
                                  /\ ~m.is_read
                                  /\ Updatable(m)}
    IN  /\ messages' =
             IF fail THEN messages
             ELSE {IF m \in rows THEN [m EXCEPT !.is_read = TRUE] ELSE m :
                     m \in messages}
        /\ reply' = [NoReply EXCEPT !.op = "markAllAsRead", !.error = fail,
                                    !.gym_id = gymId]
        /\ UNCHANGED <<now, members, coaches, member_visits, nextVisitId,
                       calls, tx, dashVars, reportVars, auth_uid, auth_users, user, authCalls,
                   participantCalls,
                       profiles,
                       session_participants>>

\* messagesService.delete: .delete().eq('id', id).  Row security is enabled
\* on messages and no policy names DELETE: the delete reaches no row, which
\* is no error
MessagesDelete(id, fail) ==
    /\ messages' =
         {m \in messages :
            fail \/ m.id # id \/ ~MessagesSelectPolicy(auth_uid, m)
                 \/ ~MessagesDeletePolicy(auth_uid, m)}
    /\ reply' = [NoReply EXCEPT !.op = "messages.delete", !.error = fail]
    /\ UNCHANGED <<now, members, coaches, member_visits, nextVisitId,
                   calls, tx, dashVars, reportVars, auth_uid, auth_users,
                   profiles, session_participants, user, authCalls,
                   participantCalls>>

\* messagesService.getUnreadCount(gymId, userId) called by user u over the
\* table `rows`: the count of the rows u may read that pass the filter and
\* are unread
getUnreadCount(rows, u, gymId, userId) ==
    Cardinality({m \in rows : /\ MessagesSelectPolicy(u, m)
                                  /\ InboxFilter(m, gymId, userId)
                                  /\ ~m.is_read})

\* the clock advances one day
tickOverdue ==
    /\ now < MaxNow
    /\ now' = now + 1
    /\ payments' =
         {IF q.status = "pending" /\ q.due_date < now'
          THEN [q EXCEPT !.status = "overdue"] ELSE q : q \in payments}
    /\ UNCHANGED <<members, coaches, member_visits, nextVisitId, calls, tx,
                   sessions, alerts, overview, reportVars, teamVars>>
Tick ==
    /\ now < MaxNow
    /\ now' = now + 1
    /\ UNCHANGED <<members, coaches, member_visits, nextVisitId, calls, tx,
                   dashVars,
                   reportVars, teamVars>>

StaleHorizon == 39

elapseAndSweep(d) ==
    /\ now + d <= StaleHorizon
    /\ now' = now + d
    /\ members' =
         [m \in DOMAIN members |->
            [members[m] EXCEPT !.activity_status =
               activity_status_case(members[m].last_visit, now')]]
    /\ UNCHANGED <<coaches, member_visits, nextVisitId, calls, tx,
                   dashVars, reportVars, teamVars>>
\* the clock advances d days; nothing in the program runs on a schedule
Elapse(d) ==
    /\ now + d <= StaleHorizon
    /\ now' = now + d
    /\ UNCHANGED <<members, coaches, member_visits, nextVisitId, calls, tx,
                   dashVars, reportVars, teamVars>>

\* --------------------------------------------------------- specifications
InitCoaches == [c \in CoachIds |-> [gym_id |-> "g1", client_count |-> 0,
                                    is_active |-> TRUE]]

\* no transaction open, no dashboard call made, the dashboard's tables empty
InitRest ==
    /\ member_visits = {}
    /\ nextVisitId = 1
    /\ calls = [k \in CallIds |-> IdleCall]
    /\ tx = [t \in TxIds |-> IdleTx]
    /\ payments = {}
    /\ sessions = {}
    /\ alerts = {}
    /\ overview = NoOverview
    /\ stats = NoStats
    /\ byMonth = NoByMonth
    /\ page = NoPage
    /\ InitTeam

Init ==
    /\ now = 0
    /\ members = <<>>
    /\ coaches = InitCoaches
    /\ InitRest

CreatePayloads ==
    {[last_visit |-> NULL, total_visits |-> JsonNumber(0)],
     [last_visit |-> Some(-ThirtyDays), total_visits |-> JsonNumber(3)],
     [last_visit |-> Some(-SevenDays), total_visits |-> JsonNumber(0)]}

Next ==
    \/ \E id \in MemberIds, p \in CreatePayloads : MembersCreate(id, "g1", p)
    \/ \E id \in MemberIds : MembersDelete(id)
    \/ \E k \in CallIds, id \in MemberIds, fail \in BOOLEAN :
          CheckInInsertVisit(k, id, "g1", fail)
    \/ \E k \in CallIds, fail \in BOOLEAN : CheckInUpdateMember(k, fail)
    \/ Tick

Spec == Init /\ [][Next]_vars

\* The classifier on its own: one member whose last_visit is drawn from the
\* whole range around both thresholds, and check-ins that fire the trigger.
ClassifyInputs ==
    {NULL} \cup {Some(d) : d \in (0 - ClassifyHorizon)..(MaxNow + 1)}

InitClassify ==
    /\ now \in 0..MaxNow
    /\ \E lv \in ClassifyInputs :
          members = [m \in {"m1"} |->
                        [MemberDefaults("g1") EXCEPT !.last_visit = lv]]
    /\ coaches = InitCoaches
    /\ InitRest

NextClassify ==
    \/ \E k \in CallIds, id \in MemberIds, fail \in BOOLEAN :
          CheckInInsertVisit(k, id, "g1", fail)
    \/ \E k \in CallIds, fail \in BOOLEAN : CheckInUpdateMember(k, fail)

SpecClassify == InitClassify /\ [][NextClassify]_vars

\* Staff editing members through the member form: every save sends the
\* whole form, coach_id included (null when no coach is chosen).
CoachInputs == {NULL} \cup {Some(c) : c \in CoachIds}

FormPayloads ==
    {[coach_id |-> c, monthly_fee |-> f] : c \in CoachInputs, f \in {49, 89}}

\* a pending payment of member m, due on day 0
ServicePayment(m) ==
    [member_id |-> m, amount |-> 50, status |-> "pending", due_date |-> 0,
     paid_date |-> NULL]

\* the member form, and a payment form that also sends the row's id
NextCoach ==
    \/ \E id \in MemberIds, p \in FormPayloads : MembersCreate(id, "g1", p)
    \/ \E id \in MemberIds, p \in FormPayloads : MembersUpdate(id, p)
    \/ \E id \in MemberIds : MembersDelete(id)
    \/ \E id \in PaymentIds : PaymentsCreate(id, "g1", ServicePayment("m1"))
    \/ \E id \in PaymentIds, newId \in PaymentIds :
          PaymentsUpdate(id, [id |-> newId, status |-> "overdue"])

SpecCoach == Init /\ [][NextCoach]_vars

\* Two member writes as concurrent transactions over a database whose
\* client counts are exact to begin with.
ExactCoaches(ms) == ApplyRecounts(InitCoaches, ms, <<"cA", "cB", "cC">>)

InitTx ==
    /\ now = 0
    /\ members \in UNION {[S -> {[MemberDefaults("g1") EXCEPT !.coach_id = c] :
                                   c \in CoachInputs}] :
                           S \in SUBSET MemberIds}
    /\ coaches = ExactCoaches(members)
    /\ InitRest

NextTx ==
    \/ \E t \in TxIds, m \in MemberIds,
          p \in {[coach_id |-> c] : c \in CoachInputs},
          op \in {"INSERT", "UPDATE", "DELETE"} : TxWrite(t, op, m, p)
    \/ \E t \in TxIds : TxCount(t)
    \/ \E t \in TxIds : TxStore(t)
    \/ \E t \in TxIds : TxCommit(t)
    \/ \E t \in TxIds : TxAbort(t)

SpecTx == InitTx /\ [][NextTx]_vars

\* The overview over a database drawn from a few rows of every table.
OverviewMemberRows ==
    {[MemberDefaults("g1") EXCEPT !.monthly_fee = 49],
     [MemberDefaults("g1") EXCEPT !.monthly_fee = 89,
                                  !.activity_status = "inactive"],
     [MemberDefaults("g2") EXCEPT !.monthly_fee = 49]}

\* m1 is a member of gym g1 and m2 of gym g2, when they exist
OverviewMemberTables ==
    {ms \in UNION {[S -> OverviewMemberRows] : S \in SUBSET MemberIds} :
        /\ "m1" \in DOMAIN ms => ms["m1"].gym_id = "g1"
        /\ "m2" \in DOMAIN ms => ms["m2"].gym_id = "g2"}

PaymentCandidates ==
    {[id |-> 1, gym_id |-> "g1", member_id |-> "m1", amount |-> 100,
      status |-> "paid", due_date |-> 0, paid_date |-> Some(0)],
     [id |-> 2, gym_id |-> "g1", member_id |-> "m1", amount |-> 50,
      status |-> "pending", due_date |-> 0, paid_date |-> NULL],
     [id |-> 3, gym_id |-> "g1", member_id |-> "m1", amount |-> 30,
      status |-> "overdue", due_date |-> 0, paid_date |-> NULL]}

SessionCandidates ==
    {[id |-> 1, gym_id |-> "g1", coach_id |-> "cA", status |-> "scheduled",
      start_time |-> 1]}

AlertCandidates ==
    {[id |-> 1, gym_id |-> "g1", is_read |-> FALSE, created_at |-> -2],
     [id |-> 2, gym_id |-> "g1", is_read |-> FALSE, created_at |-> -1],
     [id |-> 3, gym_id |-> "g1", is_read |-> TRUE, created_at |-> -1]}

InitOverview ==
    /\ now \in 0..MaxNow
    /\ members \in OverviewMemberTables
    /\ coaches = InitCoaches
    /\ member_visits = {}
    /\ nextVisitId = 1
    /\ calls = [k \in CallIds |-> IdleCall]
    /\ tx = [t \in TxIds |-> IdleTx]
    /\ payments \in SUBSET PaymentCandidates
    /\ \A q \in payments : q.member_id \in DOMAIN members
    /\ sessions \in SUBSET SessionCandidates
    /\ alerts \in SUBSET AlertCandidates
    /\ overview = NoOverview
    /\ stats = NoStats
    /\ byMonth = NoByMonth
    /\ page = NoPage
    /\ InitTeam

NextOverview ==
    \/ \E gymId \in GymIds, errors \in SUBSET Reads :
          GetOverviewRead(TRUE, gymId, Reads, errors)
    \/ GetOverviewReturn

SpecOverview == InitOverview /\ [][NextOverview]_vars

\* the payment reports over a drawn payments table: at most MaxPayments
\* rows, paid in this month, in an earlier month, a year earlier, on a
\* later day, or with no paid_date
MaxPayments == 3

\* 2 January 2025 and 31 August 2025, a day February does not have
ReportDays == {1, 242}

ReportPayments ==
    {[id |-> 1, gym_id |-> "g1", member_id |-> "m1", amount |-> 100,
      status |-> "paid", due_date |-> 0, paid_date |-> Some(0)],
     [id |-> 2, gym_id |-> "g1", member_id |-> "m1", amount |-> 40,
      status |-> "paid", due_date |-> 0, paid_date |-> NULL],
     [id |-> 3, gym_id |-> "g1", member_id |-> "m1", amount |-> 50,
      status |-> "pending", due_date |-> 0, paid_date |-> NULL],
     [id |-> 4, gym_id |-> "g1", member_id |-> "m1", amount |-> 30,
      status |-> "overdue", due_date |-> -1, paid_date |-> NULL],
     [id |-> 5, gym_id |-> "g1", member_id |-> "m1", amount |-> 7,
      status |-> "paid", due_date |-> -1, paid_date |-> Some(212)],
     [id |-> 6, gym_id |-> "g1", member_id |-> "m1", amount |-> 9,
      status |-> "paid", due_date |-> 0,
      paid_date |-> Some(45)],
     [id |-> 7, gym_id |-> "g2", member_id |-> "m2", amount |-> 3,
      status |-> "paid", due_date |-> 0, paid_date |-> Some(0)],
     [id |-> 8, gym_id |-> "g1", member_id |-> "m1", amount |-> 2,
      status |-> "paid", due_date |-> 0,
      paid_date |-> Some(-366)],
     [id |-> 9, gym_id |-> "g1", member_id |-> "m1", amount |-> 1,
      status |-> "paid", due_date |-> 0,
      paid_date |-> Some(-367)],
     [id |-> 10, gym_id |-> "g1", member_id |-> "m1", amount |-> 5,
      status |-> "paid", due_date |-> 0, paid_date |-> Some(1)]}

InitReports ==
    /\ now \in ReportDays
    /\ members = [m \in MemberIds |->
                    MemberDefaults(IF m = "m1" THEN "g1" ELSE "g2")]
    /\ coaches = InitCoaches
    /\ member_visits = {}
    /\ nextVisitId = 1
    /\ calls = [k \in CallIds |-> IdleCall]
    /\ tx = [t \in TxIds |-> IdleTx]
    /\ payments \in {rows \in SUBSET ReportPayments :
                       Cardinality(rows) <= MaxPayments}
    /\ sessions = {}
    /\ alerts = {}
    /\ overview = NoOverview
    /\ stats = NoStats
    /\ byMonth = NoByMonth
    /\ page = NoPage
    /\ InitTeam

\* the reports of gym g1, with and without an error, and for gym g2 the
\* stats, over a table and a clock that stand
\* still (SpecPaid has the writes and the clock between a call of getStats
\* and its answer)
NextReports ==
    \/ \E gymId \in GymIds : GetStats(gymId)
    \/ \E fail \in BOOLEAN :
          (fail => stats.gym_id = "g1") /\ GetStatsReturn(fail)
    \/ \E months \in {DefaultMonths, AnalyticsMonths} :
          GetRevenueByMonth("g1", months)
    \/ \E fail \in BOOLEAN : GetRevenueByMonthReturn(fail)
    \/ \E fail \in BOOLEAN : FinancialFetch("g1", fail)
    \/ FinancialStats
    \/ GetOverviewRead(TRUE, "g1", Reads, {})
    \/ GetOverviewReturn

SpecReports == InitReports /\ [][NextReports]_vars

\* the services side by side: member writes, check-ins, a coach write,
\* payment writes and the clock
ServiceCreate == [coach_id |-> NULL, monthly_fee |-> 49]
ServiceUpdate == [coach_id |-> Some("cA"), monthly_fee |-> 49]

NextService ==
    \/ \E id \in MemberIds : MembersCreate(id, "g1", ServiceCreate)
    \/ MembersUpdate("m1", ServiceUpdate)
    \/ \E id \in MemberIds : MembersDelete(id)
    \/ \E id \in MemberIds : CheckInInsertVisit("k1", id, "g1", FALSE)
    \/ \E fail \in BOOLEAN : CheckInUpdateMember("k1", fail)
    \/ \E isActive \in BOOLEAN : CoachesToggleActive("cA", isActive)
    \/ PaymentsCreate(1, "g1", ServicePayment("m1"))
    \/ PaymentsCreate(2, "g1", ServicePayment("m2"))
    \/ \E id \in PaymentIds : PaymentsUpdate(id, [status |-> "overdue"])
    \/ \E id \in PaymentIds : PaymentsMarkAsPaid(id)
    \/ \E id \in PaymentIds : PaymentsDelete(id)
    \/ Tick

SpecService == Init /\ [][NextService]_vars

\* one member and a clock that runs past the thirty days
StalePayloads ==
    {[last_visit |-> Some(0)], [activity_status |-> "moderate"]}

NextStale ==
    \/ \E p \in StalePayloads : MembersCreate("m1", "g1", p)
    \/ \E p \in StalePayloads : MembersUpdate("m1", p)
    \/ MembersDelete("m1")
    \/ \E gymId \in GymIds, fail \in BOOLEAN :
          CheckInInsertVisit("k1", "m1", gymId, fail)
    \/ \E fail \in BOOLEAN : CheckInUpdateMember("k1", fail)
    \/ \E d \in {SevenDays + 1, ThirtyDays + 1} : Elapse(d)

SpecStale == Init /\ [][NextStale]_vars

\* two users under row security: u1 owns gym g1; u2 is a coach of g1, of
\* g2 or of no gym yet
\* u2 has no gym, or belongs to g1 or g2, or has not signed up yet
RlsProfileTables ==
    {[InitProfiles EXCEPT !["u2"].gym_id = g] :
        g \in {NULL, Some("g1"), Some("g2")}}
    \cup {[u \in {"u1"} |-> InitProfiles[u]]}


InitRls ==
    /\ now = 0
    /\ members = <<>>
    /\ coaches = InitCoaches
    /\ member_visits = {}
    /\ nextVisitId = 1
    /\ calls = [k \in CallIds |-> IdleCall]
    /\ tx = [t \in TxIds |-> IdleTx]
    /\ payments = {}
    /\ sessions = {}
    /\ alerts = {}
    /\ overview = NoOverview
    /\ stats = NoStats
    /\ byMonth = NoByMonth
    /\ page = NoPage
    /\ auth_uid = "u1"
    /\ profiles \in RlsProfileTables
    /\ auth_users = DOMAIN profiles
    /\ messages = {}
    /\ session_participants = {}
    /\ reply = NoReply
    /\ InitAuth

\* a profile form that names a gym, one that names a gym that does not
\* exist, one that names a role, and one that names the id of u1 as well
ProfileUpdates ==
    {[gym_id |-> Some("g1")], [gym_id |-> Some(NewGym)], [role |-> "admin"],
     [id |-> "u1", role |-> "admin"]}

NextRls ==
    \/ \E u \in UserIds : SignIn(u)
    \/ SignOut
    \/ SignOutReturn
    \/ \E u \in UserIds, gymName \in BOOLEAN, session \in BOOLEAN :
          SignUp(u, gymName, session, FALSE)
    \/ SignUpInsertGym
    \/ SignUpInsertProfile
    \/ \E gym_id \in GymIds, p \in {ServiceCreate, ServiceUpdate} :
          RlsMembersCreate("m1", gym_id, p)
    \/ RlsMembersDelete("m1")
    \/ \E gym_id \in GymIds :
          RlsPaymentsCreate(1, gym_id, ServicePayment("m1"))
    \/ RlsPaymentsMarkAsPaid(1)
    \/ \E isActive \in BOOLEAN : RlsCoachesToggleActive("cA", isActive)
    \/ RlsCoachesCreate("cA", "g1", <<>>)
    \/ RlsCoachesCreate("cA", "g1", [gym_id |-> "g2"])
    \/ \E p \in {[is_active |-> FALSE], [client_count |-> 0],
                 [gym_id |-> "g2"], [id |-> "cB"]} :
          RlsCoachesUpdate("cA", p)
    \/ RlsCoachesDelete("cA")
    \/ \E updates \in ProfileUpdates, fail \in BOOLEAN :
          UpdateProfile(updates, fail)
    \/ \E profileId \in UserIds, updates \in ProfileUpdates :
          UpdateStaff(profileId, updates, FALSE)
    \/ \E profileId \in UserIds : UpdateStaffRole(profileId, "admin", FALSE)
    \/ \E profileId \in UserIds, fail \in BOOLEAN :
          RemoveStaff(profileId, fail)

SpecRls == InitRls /\ [][NextRls]_vars

\* the alerts of the dashboard: six unread alerts of gym g1, one more than
\* the snapshot holds, two of them of the same moment, and one of gym g2;
\* u1 belongs to g1 and u2 to g2
AlertTable ==
    {[id |-> i, gym_id |-> "g1", is_read |-> FALSE,
      created_at |-> IF i = 6 THEN -1 ELSE i - 6] : i \in 1..6}
    \cup {[id |-> 7, gym_id |-> "g2", is_read |-> FALSE, created_at |-> 0]}

\* the requests of dashboardService.getOverview answered under the SELECT
\* policies of the five tables, each "gym_id IN (the caller's gym)"; the
\* requests of a call carry the token of the user who made it
RlsGetOverviewRead(gymId, tables) ==
    LET u == IF overview.state = "reading" THEN overview.uid ELSE auth_uid
    IN  GetOverviewRead(StaffOfGym(u, gymId), gymId, tables, {})

InitAlerts ==
    /\ now = 0
    /\ members = <<>>
    /\ coaches = InitCoaches
    /\ member_visits = {}
    /\ nextVisitId = 1
    /\ calls = [k \in CallIds |-> IdleCall]
    /\ tx = [t \in TxIds |-> IdleTx]
    /\ payments = {}
    /\ sessions = {}
    /\ alerts = AlertTable
    /\ overview = NoOverview
    /\ stats = NoStats
    /\ byMonth = NoByMonth
    /\ page = NoPage
    /\ auth_uid = "u1"
    /\ auth_users = UserIds
    /\ profiles = [InitProfiles EXCEPT !["u2"].gym_id = Some("g2")]
    /\ messages = {}
    /\ session_participants = {}
    /\ reply = NoReply
    /\ InitAuth

NextAlerts ==
    \/ \E u \in UserIds : SignIn(u)
    \/ \E alertId \in {1, 6, 7}, fail \in BOOLEAN :
          MarkAlertAsRead(alertId, fail)
    \/ \E gymId \in GymIds : DismissAllAlerts(gymId, FALSE)
    \/ \E gymId \in GymIds, table \in Reads :
          RlsGetOverviewRead(gymId, {table})
    \/ GetOverviewReturn
    \/ RlsMembersCreate("m1", "g1", ServiceCreate)
    \/ RlsPaymentsCreate(1, "g1", ServicePayment("m1"))

SpecAlerts == InitAlerts /\ [][NextAlerts]_vars

\* two sessions of gym g1, one for a single participant (the default) and
\* one for two, both without participants; m1 and m2 are members of g1;
\* u1 belongs to g1 and u2 to g2
SessionTable ==
    {[id |-> 1, gym_id |-> "g1", status |-> "scheduled", start_time |-> 1,
      coach_id |-> "cA", max_participants |-> 1,
      current_participants |-> 0],
     [id |-> 2, gym_id |-> "g1", status |-> "scheduled", start_time |-> 1,
      coach_id |-> "cA", max_participants |-> 2,
      current_participants |-> 0]}

InitSessions ==
    /\ now = 0
    /\ members = [m \in MemberIds |-> MemberDefaults("g1")]
    /\ coaches = InitCoaches
    /\ member_visits = {}
    /\ nextVisitId = 1
    /\ calls = [k \in CallIds |-> IdleCall]
    /\ tx = [t \in TxIds |-> IdleTx]
    /\ payments = {}
    /\ sessions = SessionTable
    /\ alerts = {}
    /\ overview = NoOverview
    /\ stats = NoStats
    /\ byMonth = NoByMonth
    /\ page = NoPage
    /\ auth_uid = "u1"
    /\ auth_users = UserIds
    /\ profiles = [InitProfiles EXCEPT !["u2"].gym_id = Some("g2")]
    /\ messages = {}
    /\ session_participants = {}
    /\ reply = NoReply
    /\ InitAuth

NextSessions ==
    \/ \E u \in UserIds : SignIn(u)
    \/ \E k \in CallIds, sessionId \in SessionIds, memberId \in MemberIds,
          fail \in BOOLEAN : AddParticipant(k, sessionId, memberId, fail)
    \/ \E k \in CallIds : AddParticipantRpc(k)
    \/ \E k \in CallIds, sessionId \in SessionIds, memberId \in MemberIds,
          fail \in BOOLEAN : RemoveParticipant(k, sessionId, memberId, fail)
    \/ \E k \in CallIds : RemoveParticipantRpc(k)
    \/ \E gym_id \in GymIds :
          SessionsCreate(1, [gym_id |-> gym_id, coach_id |-> "cA",
                             start_time |-> 1], FALSE)
    \/ SessionsCreate(1, [id |-> 2, gym_id |-> "g1", coach_id |-> "cA",
                          start_time |-> 1], FALSE)
    \/ \E updates \in {[max_participants |-> 2],
                        [current_participants |-> 1]} :
          SessionsUpdate(1, updates, FALSE)
    \/ SessionsUpdateStatus(1, "cancelled", FALSE)
    \/ SessionsDelete(1, FALSE)

SpecSessions == InitSessions /\ [][NextSessions]_vars

\* one member of gym g1 and up to two payments, created pending with
\* amounts that are distinct powers of two, so that a sum tells which
\* payments it holds; the clock starts on the last day of a month
PaidAmounts == [id \in PaymentIds |-> 2 ^ (id - 1)]

PaidPayment(id) ==
    [member_id |-> "m1", amount |-> PaidAmounts[id], status |-> "pending",
     due_date |-> 30, paid_date |-> NULL]

InitPaid ==
    /\ now = 30
    /\ members = [m \in {"m1"} |-> MemberDefaults("g1")]
    /\ coaches = InitCoaches
    /\ InitRest

NextPaid ==
    \/ \E id \in PaymentIds : PaymentsCreate(id, "g1", PaidPayment(id))
    \/ \E id \in PaymentIds : PaymentsUpdate(id, [status |-> "overdue"])
    \/ \E id \in PaymentIds : PaymentsMarkAsPaid(id)
    \/ GetStats("g1")
    \/ \E fail \in BOOLEAN : GetStatsReturn(fail)
    \/ Elapse(1)

SpecPaid == InitPaid /\ [][NextPaid]_vars

\* u1 and u2 are staff of gym g1; they send each other messages and
\* broadcasts and mark what they received as read
NextMessages ==
    \/ \E u \in UserIds : SignIn(u)
    \/ \E id \in MessageIds, gymId \in GymIds, fail \in BOOLEAN :
          SendBroadcast(id, gymId, auth_uid, fail)
    \/ \E id \in MessageIds, recipientId \in UserIds :
          Send(id, "g1", auth_uid, recipientId, FALSE)
    \/ \E id \in MessageIds, fail \in BOOLEAN : MarkAsRead(id, fail)
    \/ \E gymId \in GymIds, fail \in BOOLEAN :
          MarkAllAsRead(gymId, auth_uid, fail)
    \/ \E id \in MessageIds, fail \in BOOLEAN : MessagesDelete(id, fail)

SpecMessages == Init /\ [][NextMessages]_vars

\* ================================================================= claims
\* the classification as the specification words it, from the age in days
ClaimedStatus(last_visit, n) ==
    IF last_visit # NULL /\ n - The(last_visit) <= 7 THEN "active"
    ELSE IF last_visit # NULL /\ 7 < n - The(last_visit)
                              /\ n - The(last_visit) <= 30 THEN "moderate"
    ELSE "inactive"

\* the step in which invocation k of checkIn returns its visit to the caller
Returns(k) == calls[k].pc = "inserted" /\ calls'[k].pc = "returned"

\* C1: when checkIn for member M returns without error, M's stored
\* activity_status is 'active' (the classification of the visit just
\* recorded), whatever M's last_visit and status were before.
C1_StatusActiveAfterCheckIn ==
    [][\A k \in CallIds :
          (Returns(k) /\ calls[k].member_id \in DOMAIN members')
          => members'[calls[k].member_id].activity_status = "active"]_vars

\* C3: checkIn raises M.total_visits by exactly 1 and sets M.last_visit to
\* the check-in timestamp of the recorded visit.
C3_VisitCounted ==
    [][\A k \in CallIds :
          (Returns(k) /\ calls[k].member_id \in DOMAIN members')
          => /\ members'[calls[k].member_id].total_visits
                   = calls[k].prior_total + 1
             /\ members'[calls[k].member_id].last_visit
                   = Some(The(calls[k].data).check_in)]_vars

\* C4: whenever the trigger has classified a member, the stored status is
\* 'active' iff now - last_visit <= 7 days, 'moderate' iff it is above 7 and
\* at most 30 days, and 'inactive' otherwise, null included.
C4_ClassifierThresholds ==
    \A m \in DOMAIN members :
        VisitsOf(m) # {}
        => members[m].activity_status
              = ClaimedStatus(members[m].last_visit, now)

\* C4 witness: a member exactly 30 days old has been classified 'moderate'
C4_Witness ==
    \E m \in DOMAIN members :
        /\ VisitsOf(m) # {}
        /\ members[m].last_visit = Some(now - 30)
        /\ members[m].activity_status = "moderate"

\* C8: the visit insert and the member update of a check-in are atomic: no
\* visit row created by a check-in exists while the member's total_visits
\* and last_visit do not reflect it.
C8_VisitAndMemberAtomic ==
    \A k \in CallIds :
        (calls[k].data # NULL /\ calls[k].data \subseteq member_visits)
        => /\ members[calls[k].member_id].total_visits
                 >= calls[k].prior_total + 1
           /\ \E t \in members[calls[k].member_id].last_visit :
                 t >= The(calls[k].data).check_in

\* C9: every failed data operation inside checkIn raises: a failed insert
\* throws and leaves the member rows alone, and a failed member update
\* throws too instead of returning the visit.
C9_FailuresRaise ==
    [][\A k \in CallIds :
          calls'[k] # calls[k]
          => /\ calls'[k].insertError
                   => (calls'[k].pc = "threw" /\ members' = members)
             /\ calls'[k].updateError => calls'[k].pc = "threw"]_vars

\* the number of member rows whose coach_id references coach c
ClientsOf(ms, c) == Cardinality({m \in DOMAIN ms : ms[m].coach_id = Some(c)})

\* a step that updates member m's coach assignment from `old` to `new`
Reassigned(m, old, new) ==
    /\ m \in DOMAIN members
    /\ m \in DOMAIN members'
    /\ members[m].coach_id = old
    /\ members'[m].coach_id = new

\* C2: after any sequence of member inserts, updates and deletes, every
\* coach's stored client_count is the number of members referencing the coach.
C2_ClientCountExact ==
    \A c \in CoachIds : coaches[c].client_count = ClientsOf(members, c)

\* C5: updating M's coach from A to a different coach B lowers A.client_count
\* by exactly 1, raises B.client_count by exactly 1 and leaves every other
\* coach's client_count as it was.
C5_ReassignMovesOne ==
    [][\A m \in MemberIds : \A a, b \in CoachIds :
          (a # b /\ Reassigned(m, Some(a), Some(b)))
          => /\ coaches'[a].client_count = coaches[a].client_count - 1
             /\ coaches'[b].client_count = coaches[b].client_count + 1
             /\ \A c \in CoachIds \ {a, b} :
                   coaches'[c].client_count = coaches[c].client_count]_vars

\* C6: updating M from coach A to no coach recounts A: afterwards
\* A.client_count is the number of members still referencing A, one less
\* than before.
C6_UnassignRecounts ==
    [][\A m \in MemberIds : \A a \in CoachIds :
          Reassigned(m, Some(a), NULL)
          => /\ coaches'[a].client_count = ClientsOf(members', a)
             /\ coaches'[a].client_count = coaches[a].client_count - 1]_vars

\* the coaches a transaction's member write touches
Affects(t) == tx[t].OLD_coach_id \cup tx[t].NEW_coach_id

\* an update that takes a member from a coach to no coach
Unassigns(t) ==
    tx[t].op = "UPDATE" /\ tx[t].OLD_coach_id # NULL
                        /\ tx[t].NEW_coach_id = NULL

\* C7: when two member writes that affect the same coach (reassignments,
\* inserts, deletes) run as concurrent transactions, then once both have
\* committed that coach's client_count is the number of members referencing
\* the coach.
C7_NoDriftUnderConcurrency ==
    ((\A t \in TxIds : tx[t].pc = "committed" /\ ~Unassigns(t)))
    => \A c \in Affects("t1") \cap Affects("t2") :
          coaches[c].client_count = ClientsOf(members, c)

\* C10: getOverview never returns a snapshot when one of its five reads
\* failed (a failed read's rows are never taken to be an empty list).
C10_OverviewFailsAsAWhole ==
    overview.state = "returned" => overview.errors = {}

RECURSIVE Total(_)
\* the sum of the amounts of a set of payment rows
Total(rows) ==
    IF rows = {} THEN 0
    ELSE LET top == CHOOSE x \in rows : \A y \in rows : y.id <= x.id
         IN Total(rows \ {top}) + top.amount

\* the paid payments among `rows` that carry a paid_date
DatedPaid(rows) == {p \in rows : p.status = "paid" /\ p.paid_date # NULL}

\* those paid between day `start` and day `end`
PaidBetween(rows, start, end) ==
    {p \in DatedPaid(rows) :
        start <= The(p.paid_date) /\ The(p.paid_date) <= end}

\* the payment rows of a gym
GymPayments(gym) == {p \in payments : p.gym_id = gym}

\* this step is the return of getStats, of getOverview, of
\* getRevenueByMonth
StatsReturns == stats.state = "called" /\ stats'.state = "returned"
OverviewReturns == overview.state = "reading" /\ overview'.state = "returned"
ByMonthReturns == byMonth.state = "called" /\ byMonth'.state = "returned"

\* C11: the revenueThisMonth of getStats and of getOverview is the sum of
\* the amounts of exactly the paid payments, among the rows the call was
\* answered with, whose paid_date lies between the first day of the month
\* the call read from the clock and now; a payment paid before the first or
\* dated after now adds nothing.
C11_RevenueThisMonthToDate ==
    [][/\ StatsReturns =>
            stats'.revenueThisMonth =
              Total(PaidBetween(GymPayments(stats'.gym_id),
                                stats'.startOfMonth, now))
       /\ OverviewReturns =>
            overview'.snapshot.revenueThisMonth =
              Total(PaidBetween(overview'.paymentsData,
                                overview'.startOfMonth, now))]_vars

\* C12: getStats returns as pendingAmount the sum over the pending payments
\* the gym has when the database answers and as overdueAmount the sum over
\* its overdue payments, and no payment's amount is counted in more than one
\* of revenueThisMonth, pendingAmount and overdueAmount.
C12_PendingOverdueDisjoint ==
    [][StatsReturns =>
         LET rows == GymPayments(stats'.gym_id)
         IN  /\ stats'.pendingAmount =
                  Total({p \in rows : p.status = "pending"})
             /\ stats'.overdueAmount =
                  Total({p \in rows : p.status = "overdue"})
             /\ stats'.revenueThisMonth + stats'.pendingAmount
                  + stats'.overdueAmount <= Total(rows)]_vars

C12_Witness ==
    /\ stats.state = "returned"
    /\ stats.revenueThisMonth > 0
    /\ stats.pendingAmount > 0
    /\ stats.overdueAmount > 0

RECURSIVE SumBuckets(_)
\* the sum of the values of a revenue-by-month record
SumBuckets(f) ==
    IF DOMAIN f = {} THEN 0
    ELSE LET k == CHOOSE x \in DOMAIN f : TRUE
         IN f[k] + SumBuckets([x \in DOMAIN f \ {k} |-> f[x]])

\* the dated paid payments among `rows` paid on or after day `start`
DatedPaidSince(rows, start) ==
    {p \in DatedPaid(rows) : The(p.paid_date) >= start}

\* C13: a paid payment with no paid_date adds nothing to a month-bucketed
\* sum: revenueThisMonth of getStats and of getOverview, the buckets of
\* getRevenueByMonth and the page's MTD, QTD and YTD revenue are sums over
\* the dated paid payments among the rows each was computed from, from the
\* start each read from the clock.
C13_UndatedPaidExcluded ==
    [][/\ StatsReturns =>
            stats'.revenueThisMonth =
              Total(DatedPaidSince(GymPayments(stats'.gym_id),
                                   stats'.startOfMonth))
       /\ OverviewReturns =>
            overview'.snapshot.revenueThisMonth =
              Total(DatedPaidSince(overview'.paymentsData,
                                   overview'.startOfMonth))
       /\ ByMonthReturns =>
            SumBuckets(byMonth'.revenueByMonth) =
              Total(DatedPaidSince(GymPayments(byMonth'.gym_id),
                                   byMonth'.startDate))
       /\ page'.state = "computed" =>
            /\ page'.revenueMTD =
                 Total(DatedPaidSince(page'.payments, page'.monthStart))
            /\ page'.revenueQTD =
                 Total(DatedPaidSince(page'.payments,
                                      StartOfQuarter(page'.monthStart)))
            /\ page'.revenueYTD =
                 Total(DatedPaidSince(page'.payments,
                                      StartOfYear(page'.monthStart)))]_vars

\* the paid payments among `rows` that carry no paid_date
Undated(rows) == {p \in rows : p.status = "paid" /\ p.paid_date = NULL}

C13_Witness ==
    /\ stats.state = "returned" /\ stats.gym_id = "g1"
    /\ overview.state = "returned" /\ overview.gym_id = "g1"
    /\ byMonth.state = "returned" /\ byMonth.gym_id = "g1"
    /\ page.state = "computed" /\ page.gym_id = "g1"
    /\ Undated(stats.allPayments) # {}
    /\ Undated(overview.paymentsData) # {}
    /\ Undated(page.payments) # {}
    /\ stats.revenueThisMonth > 0
    /\ SumBuckets(byMonth.revenueByMonth) > 0
    /\ page.revenueYTD > 0

\* the calendar year and month (1..12) of a payment's paid_date
YearMonth(p) ==
    <<getFullYear(The(p.paid_date)), getMonth(The(p.paid_date)) + 1>>

\* C14: getRevenueByMonth has one bucket per (year, month) of the paid
\* payments dated on or after the window's first day; each such payment
\* adds its amount to the bucket of its own year and month and to no
\* other, so two payments share a bucket exactly when they share year and
\* month, and the buckets sum to the payments' total.
C14_BucketsByYearMonth ==
    [][ByMonthReturns =>
         LET f == byMonth'.revenueByMonth
             W == DatedPaidSince(GymPayments(byMonth'.gym_id),
                                 byMonth'.startDate)
         IN  /\ Cardinality(DOMAIN f) = Cardinality({YearMonth(p) : p \in W})
             /\ \A p \in W :
                  \E k \in DOMAIN f :
                     /\ <<k[1], 10 * k[2] + k[3]>> = YearMonth(p)
                     /\ f[k] = Total({q \in W : YearMonth(q) = YearMonth(p)})
             /\ SumBuckets(f) = Total(W)]_vars

C14_Witness ==
    /\ byMonth.state = "returned"
    /\ Cardinality(DOMAIN byMonth.revenueByMonth) >= 2
    /\ \E p, q \in DatedPaidSince(GymPayments(byMonth.gym_id),
                                 byMonth.startDate) :
          /\ p # q
          /\ YearMonth(p) = YearMonth(q)
          /\ getMonth(The(p.paid_date)) = getMonth(0)
          /\ byMonth.revenueByMonth[Key(The(p.paid_date))]
               = p.amount + q.amount
    /\ \E p \in DatedPaidSince(GymPayments(byMonth.gym_id),
                               byMonth.startDate) :
          getFullYear(The(p.paid_date)) # getFullYear(0)

\* C15: visit rows are append-only: over any sequence of service
\* operations the set of stored visit rows only grows, and no row is
\* removed or modified.
C15_VisitsAppendOnly == [][member_visits \subseteq member_visits']_vars

\* C15 (amended): a visit row is never modified, and it is removed only in
\* the step that deletes its member, together with that member's other
\* visit rows.
C15_VisitsLeaveWithMember ==
    [][\A v \in member_visits :
          \/ v \in member_visits'
          \/ /\ v.member_id \in DOMAIN members
             /\ v.member_id \notin DOMAIN members'
             /\ \A w \in member_visits' : w.member_id # v.member_id]_vars

C15_Witness ==
    /\ nextVisitId > Cardinality(member_visits) + 1
    /\ \E v \in member_visits :
          /\ v.check_in < now
          /\ members[v.member_id].coach_id # NULL
    /\ payments # {}

\* C16: two checkIn calls for the same member, one after the other or
\* interleaved, create two distinct visit rows and raise the member's
\* total_visits by exactly 2.
C16_TwoCheckInsCountTwo ==
    \A m \in DOMAIN members :
       (/\ \A k \in CallIds :
             calls[k].pc = "returned" /\ calls[k].member_id = m
        /\ \A k \in CallIds : calls[k].data # NULL
        /\ \A k \in CallIds : calls[k].data \subseteq member_visits)
       => /\ calls["k1"].data # calls["k2"].data
          /\ \E k \in CallIds :
                /\ \A j \in CallIds :
                      calls[k].prior_total <= calls[j].prior_total
                /\ members[m].total_visits = calls[k].prior_total + 2

\* C17: a check-in for member M leaves the activity_status, last_visit and
\* total_visits of every other member as they were.
C17_CheckInTouchesOnlyItsMember ==
    [][\A k \in CallIds :
          calls'[k] # calls[k] =>
            \A m \in DOMAIN members \ {calls'[k].member_id} :
               /\ m \in DOMAIN members'
               /\ members'[m].activity_status = members[m].activity_status
               /\ members'[m].last_visit = members[m].last_visit
               /\ members'[m].total_visits = members[m].total_visits]_vars

C17_Witness ==
    \E k \in CallIds :
       /\ calls[k].pc = "returned"
       /\ calls[k].data # NULL
       /\ calls[k].data \subseteq member_visits
       /\ \E m \in DOMAIN members \ {calls[k].member_id} :
             /\ members[m].activity_status = "active"
             /\ activity_status_case(members[m].last_visit,
                                     The(calls[k].data).check_in) = "inactive"

\* C18: the passage of time never changes a stored activity_status: a
\* member stored as active with no further visit is still stored as active
\* after more than 30 days; the stored status of a member changes only in
\* a step that inserts a visit for that member or in a staff write.
C18_StatusNotSweptByTime ==
    [][\A m \in DOMAIN members \cap DOMAIN members' :
          members'[m].activity_status # members[m].activity_status =>
            \/ \E v \in member_visits' \ member_visits : v.member_id = m
            \/ now' = now /\ calls' = calls]_vars

C18_Witness ==
    \E m \in DOMAIN members :
       /\ members[m].activity_status = "active"
       /\ members[m].last_visit # NULL
       /\ now - The(members[m].last_visit) > ThirtyDays

\* C19: time never moves a payment's status: a pending payment whose
\* due_date has passed stays pending; a payment's status changes only in a
\* step that writes that payment and nothing else (create, update or
\* markAsPaid), and every other operation leaves it as it was.
C19_PaymentStatusOnlyByWrite ==
    [][\A q \in payments : \A r \in payments' :
          (q.id = r.id /\ q.status # r.status) =>
            /\ now' = now
            /\ members' = members
            /\ coaches' = coaches
            /\ member_visits' = member_visits
            /\ calls' = calls
            /\ \A x \in payments : x.id # q.id => x \in payments']_vars

C19_Witness ==
    /\ \E q \in payments : q.status = "pending" /\ q.due_date < now
    /\ \E q \in payments : q.status = "paid"
    /\ member_visits # {}

RECURSIVE FeeTotal(_)
\* the sum of monthly_fee over a set of member ids
FeeTotal(ids) ==
    IF ids = {} THEN 0
    ELSE LET m == CHOOSE x \in ids : TRUE
         IN members[m].monthly_fee + FeeTotal(ids \ {m})

\* C20: the mrr of the overview snapshot is the sum of monthly_fee over
\* the gym's active members only; a member that is not active adds
\* nothing.
C20_MrrOverActiveMembers ==
    overview.state = "returned" /\ "members" \notin overview.errors =>
      overview.snapshot.mrr =
        FeeTotal({m \in DOMAIN members :
                    /\ members[m].gym_id = overview.gym_id
                    /\ members[m].activity_status = "active"})

\* the rows a step adds to or takes from a table
Touched(before, after) == (before \ after) \cup (after \ before)

\* the gym of user u's profile in the table ps, if u has one
GymOf(ps, u) == IF u \in DOMAIN ps THEN ps[u].gym_id ELSE NULL

\* C21: row access is confined to the caller's gym: no step of a user
\* whose profile has gym_id = G adds, changes or removes a member, coach,
\* visit, payment or alert row of another gym, and the rows the user reads
\* are rows of G.
C21_AccessConfinedToGym ==
    [][LET G == GymOf(profiles, auth_uid)
       IN  /\ \A m \in DOMAIN members \ DOMAIN members' :
                members[m].gym_id \in G
           /\ \A m \in DOMAIN members' \ DOMAIN members :
                members'[m].gym_id \in G
           /\ \A m \in DOMAIN members \cap DOMAIN members' :
                members'[m] # members[m] =>
                  members[m].gym_id \in G /\ members'[m].gym_id \in G
           /\ \A c \in DOMAIN coaches :
                (c \notin DOMAIN coaches' \/ coaches'[c] # coaches[c])
                => coaches[c].gym_id \in G
           /\ \A c \in DOMAIN coaches' :
                (c \notin DOMAIN coaches \/ coaches'[c] # coaches[c])
                => coaches'[c].gym_id \in G
           /\ \A x \in Touched(sessions, sessions') : x.gym_id \in G
           /\ \A v \in Touched(member_visits, member_visits') : v.gym_id \in G
           /\ \A q \in Touched(payments, payments') : q.gym_id \in G
           /\ \A a \in Touched(alerts, alerts') : a.gym_id \in G
           /\ \A m \in SelectMembers(auth_uid) : members[m].gym_id \in G
           /\ \A q \in SelectPayments(auth_uid) : q.gym_id \in G]_vars

\* C23: when removeStaff(P) returns without error, P's profile has gym_id
\* null and P is no longer among the staff of its former gym; a caller who
\* may not change P's row gets an error, never a success with P unchanged.
C23_RemoveStaffRemovesOrFails ==
    [][(reply' # reply /\ reply'.op = "removeStaff" /\ ~reply'.error) =>
         LET P == reply'.profile_id
         IN  P \in DOMAIN profiles =>
               /\ profiles'[P].gym_id = NULL
               /\ \A g \in profiles[P].gym_id :
                     g \notin profiles'[P].gym_id]_vars

\* C30: a user cannot grant themselves access to a gym: when a step gives
\* user U access to the rows of gym G, the step is taken by an owner or
\* admin of G, never by U on their own profile.
C30_NoSelfGrantedAccess ==
    [][\A u \in UserIds, g \in GymIds :
          (g \notin GymOf(profiles, u) /\ g \in GymOf(profiles', u)) =>
            /\ g \in GymOf(profiles, auth_uid)
            /\ profiles[auth_uid].role \in {"owner", "admin"}]_vars

\* this step answers the alerts request of a getOverview call
AlertsAnswered ==
    /\ overview'.state = "reading" /\ "alerts" \in DOMAIN overview'.got
    /\ overview.state = "reading" => "alerts" \notin DOMAIN overview.got

\* the answer to the alerts request lists unread alerts of the requested
\* gym, at most AlertLimit of them, the newest first (for a caller of the
\* gym's staff: the newest of all the gym's unread alerts), and the
\* snapshot returns the list as it was answered
SnapshotListsUnread ==
    /\ AlertsAnswered =>
          LET q == overview'.got["alerts"]
          IN  /\ Len(q) <= 5
              /\ \A i \in DOMAIN q :
                    /\ q[i] \in alerts
                    /\ q[i].gym_id = overview'.gym_id
                    /\ ~q[i].is_read
              /\ \A i, j \in DOMAIN q :
                    i < j => q[i].created_at >= q[j].created_at
              /\ \A a \in alerts :
                    (/\ StaffOfGym(overview'.uid, overview'.gym_id)
                     /\ a.gym_id = overview'.gym_id /\ ~a.is_read
                     /\ \A i \in DOMAIN q : q[i] # a)
                    => /\ Len(q) = 5
                       /\ \A i \in DOMAIN q : q[i].created_at >= a.created_at
    /\ (overview.state = "reading" /\ overview'.state = "returned")
       => overview'.snapshot.alerts = overview.got["alerts"]

\* an alert that is read stays read, so no later answer lists it
ReadStaysRead == \A a \in alerts : a.is_read => a \in alerts'

MarkedNow == reply' # reply /\ reply'.op = "markAlertAsRead" /\ ~reply'.error
DismissedNow ==
    reply' # reply /\ reply'.op = "dismissAllAlerts" /\ ~reply'.error

\* C22: the snapshot's alerts are unread alerts of the requested gym, at
\* most 5, the newest first; once markAlertAsRead(a) or dismissAllAlerts(G)
\* has succeeded, a (every alert of G) is read and in no later snapshot;
\* alerts of other gyms keep their is_read value.
C22_DismissedAlertsStayOut ==
    [][/\ SnapshotListsUnread
       /\ ReadStaysRead
       /\ MarkedNow =>
            \A a \in alerts' : a.id = reply'.alert_id => a.is_read
       /\ DismissedNow =>
            /\ \A a \in alerts' : a.gym_id = reply'.gym_id => a.is_read
            /\ \A a \in alerts : a.gym_id # reply'.gym_id => a \in alerts']_vars

ParticipantsOf(sessionId) ==
    {r \in session_participants : r.session_id = sessionId}

\* C25: after any sequence of addParticipant and removeParticipant calls,
\* once none of them is under way, each session's current_participants
\* equals the number of session_participants rows of that session.
C25_CountEqualsParticipantRows ==
    (\A k \in CallIds : participantCalls[k].pc = "idle")
    => \A x \in sessions :
          x.current_participants = Cardinality(ParticipantsOf(x.id))

\* C26: current_participants never exceeds max_participants, and no step
\* adds a participant row to, or raises the count of, a session that is
\* already full.
C26_FullSessionTakesNoParticipant ==
    [][/\ \A x \in sessions' :
             x.current_participants <= x.max_participants
       /\ \A x \in sessions :
             (\/ Cardinality(ParticipantsOf(x.id)) >= x.max_participants
              \/ x.current_participants >= x.max_participants)
             => /\ \A r \in session_participants' :
                      r.session_id = x.id => r \in session_participants
                /\ \A y \in sessions' :
                      y.id = x.id
                      => y.current_participants <= x.current_participants]_vars

\* the sum x of amounts that are distinct powers of two holds the payment p
CountedIn(x, p) == (x \div p.amount) % 2 = 1

\* C24: a payment becomes paid together with paid_date = now, in one
\* write; every paid payment has a paid_date; getStats counts a payment paid
\* in the current month in revenueThisMonth, every paid payment in totalPaid,
\* and no paid payment in pendingAmount or overdueAmount.
C24_MarkAsPaidMovesPayment ==
    [][/\ \A q \in payments : \A r \in payments' :
            (r.id = q.id /\ q.status # "paid" /\ r.status = "paid")
            => /\ r.paid_date = Some(now)
               /\ r = [q EXCEPT !.status = "paid", !.paid_date = Some(now)]
       /\ \A r \in payments' : r.status = "paid" => r.paid_date # NULL
       /\ (stats' # stats /\ stats'.state = "returned")
          => \A q \in payments :
                q.status = "paid"
                => /\ CountedIn(stats'.totalPaid, q)
                   /\ ~CountedIn(stats'.pendingAmount, q)
                   /\ ~CountedIn(stats'.overdueAmount, q)
                   /\ (StartOfMonth(The(q.paid_date)) = StartOfMonth(now)
                       => CountedIn(stats'.revenueThisMonth, q))]_vars

C24_Witness ==
    /\ stats.state = "returned"
    /\ \E q \in payments :
          /\ q.status = "paid" /\ q.paid_date = Some(now)
          /\ CountedIn(stats.revenueThisMonth, q)
          /\ CountedIn(stats.totalPaid, q)
    /\ \E q \in payments : q.status = "overdue"
                           /\ CountedIn(stats.overdueAmount, q)
    /\ StartOfMonth(now) > 30

\* C27: for a member created with total_visits = 0, once no check-in is
\* under way, total_visits equals the number of the member's visit rows and
\* last_visit is not earlier than the check_in of any of them.
C27_VisitsCountedAndDated ==
    (\A k \in CallIds : calls[k].pc # "inserted")
    => \A m \in DOMAIN members :
          /\ members[m].total_visits = Cardinality(VisitsOf(m))
          /\ \A v \in VisitsOf(m) :
                \E d \in members[m].last_visit : d >= v.check_in

\* C28: computed for the same gym over the same rows in the same month,
\* getOverview's and getStats's revenueThisMonth and the financial page's
\* revenueMTD are equal, and so are the three overdueAmount figures, rows
\* without a paid_date included.
C28_AggregationsAgree ==
    (/\ overview.state = "returned" /\ stats.state = "returned"
     /\ page.state = "computed"
     /\ overview.gym_id = stats.gym_id /\ stats.gym_id = page.gym_id
     /\ overview.paymentsData = stats.allPayments
     /\ stats.allPayments = page.payments
     /\ overview.startOfMonth = stats.startOfMonth
     /\ stats.startOfMonth = page.monthStart)
    => /\ overview.snapshot.revenueThisMonth = stats.revenueThisMonth
       /\ stats.revenueThisMonth = page.revenueMTD
       /\ overview.snapshot.overdueAmount = stats.overdueAmount
       /\ stats.overdueAmount = page.overdueAmount

C28_Witness ==
    /\ overview.state = "returned" /\ stats.state = "returned"
    /\ page.state = "computed"
    /\ overview.gym_id = "g1" /\ stats.gym_id = "g1" /\ page.gym_id = "g1"
    /\ overview.paymentsData = stats.allPayments
    /\ stats.allPayments = page.payments
    /\ overview.startOfMonth = stats.startOfMonth
    /\ stats.startOfMonth = page.monthStart
    /\ Undated(page.payments) # {}
    /\ \E p \in page.payments : /\ p.status = "paid"
                                /\ \E d \in p.paid_date : d < page.monthStart
    /\ page.revenueMTD > 0
    /\ page.revenueMTD < stats.totalPaid

\* C29: when a user's markAsRead or markAllAsRead succeeds, the unread
\* count of every other staff user of the gym is unchanged, and after
\* markAllAsRead(G, U1) the unread count of U1 in G is 0.
C29_ReadStatePerReader ==
    [][(reply' # reply /\ ~reply'.error
        /\ reply'.op \in {"markAsRead", "markAllAsRead"})
       => /\ \A u \in UserIds \ {auth_uid} : \A g \in GymIds :
                StaffOfGym(u, g)
                => getUnreadCount(messages', u, g, u)
                   = getUnreadCount(messages, u, g, u)
          /\ reply'.op = "markAllAsRead"
             => getUnreadCount(messages', auth_uid, reply'.gym_id,
                               auth_uid) = 0]_vars

====
